---- MODULE Spec2Model ----
(***************************************************************************)
(* Resilient orchestration engine of 3AI: the per-unit circuit breaker,    *)
(* the agent registry, run_agent, the health monitor, the recovery chain   *)
(* and the scheduler loop of src/core/agent_orchestration.py.              *)
(*                                                                         *)
(* Time.  The program reads the wall clock (datetime.now()) and stores     *)
(* instants.  The model keeps, for every stored instant, the number of     *)
(* whole seconds that have passed since it ("age"), and for every pending  *)
(* asyncio.sleep the seconds still to wait.  Storing datetime.now() stores *)
(* age 0; letting d seconds pass adds d to every age and takes d off every *)
(* pending sleep.  now - t is therefore the age kept for t.                *)
(***************************************************************************)
EXTENDS Integers, Sequences, FiniteSets, TLC

\* None, where the program holds a unit or an instant (both naturals here).
None == 0 - 1

Min(a, b) == IF a <= b THEN a ELSE b
Max(a, b) == IF a >= b THEN a ELSE b

(***************************************************************************)
(* CircuitBreaker (dataclass, agent_orchestration.py lines 88-113)         *)
(***************************************************************************)
failure_threshold == 3
recovery_timeout == 300
SecondsPerDay == 86400

\* timedelta.seconds of a non-negative timedelta of d whole seconds: the
\* seconds field, with the days split off (not total_seconds()).
timedelta_seconds(d) == d % SecondsPerDay

\* CircuitBreaker(): the dataclass defaults.
CircuitBreaker ==
    [failure_count |-> 0, last_failure |-> None, is_open |-> FALSE]

\* Variant of record_failure: opens only above the threshold.
record_failure_gt(cb) ==
    [failure_count |-> cb.failure_count + 1,
     last_failure  |-> 0,
     is_open       |-> (cb.is_open \/ cb.failure_count + 1 > failure_threshold)]

record_failure(cb) ==
    [failure_count |-> cb.failure_count + 1,
     last_failure  |-> 0,
     is_open       |-> (cb.is_open \/ cb.failure_count + 1 >= failure_threshold)]

\* Variant of record_success: is_open is left as it was.
record_success_count_only(cb) ==
    [cb EXCEPT !.failure_count = 0]

\* Variant of record_success: failure_count is left as it was.
record_success_keeps_count(cb) ==
    [cb EXCEPT !.is_open = FALSE]

record_success(cb) ==
    [cb EXCEPT !.failure_count = 0, !.is_open = FALSE]

\* Variant of should_allow_request: a gate that admits every call.
should_allow_request_always(cb) == [ret |-> TRUE, cb |-> cb]

\* Variant of should_allow_request: admits from recovery_timeout seconds on.
should_allow_request_ge(cb) ==
    IF ~cb.is_open
    THEN [ret |-> TRUE, cb |-> cb]
    ELSE IF cb.last_failure # None
            /\ timedelta_seconds(cb.last_failure) >= recovery_timeout
         THEN [ret |-> TRUE,
               cb  |-> [cb EXCEPT !.is_open = FALSE, !.failure_count = 0]]
         ELSE [ret |-> FALSE, cb |-> cb]

\* Variant of should_allow_request: a denial restarts the breaker's timer.
should_allow_request_touch(cb) ==
    IF ~cb.is_open
    THEN [ret |-> TRUE, cb |-> cb]
    ELSE IF cb.last_failure # None
            /\ timedelta_seconds(cb.last_failure) > recovery_timeout
         THEN [ret |-> TRUE,
               cb  |-> [cb EXCEPT !.is_open = FALSE, !.failure_count = 0]]
         ELSE [ret |-> FALSE, cb |-> [cb EXCEPT !.last_failure = 0]]

\* Returns the bool and the breaker as the call leaves it.
should_allow_request(cb) ==
    IF ~cb.is_open
    THEN [ret |-> TRUE, cb |-> cb]
    ELSE IF cb.last_failure # None
            /\ timedelta_seconds(cb.last_failure) > recovery_timeout
         THEN [ret |-> TRUE,
               cb  |-> [cb EXCEPT !.is_open = FALSE, !.failure_count = 0]]
         ELSE [ret |-> FALSE, cb |-> cb]

(***************************************************************************)
(* Bounds of the model                                                     *)
(***************************************************************************)
\* Ages saturate here: an instant this old or older reads as AgeCap.
AgeCap == 400
\* A run's measured execution time saturates here.
ExecCap == 10
\* Scheduler ticks, external run_agent calls, raising runs per unit.
MaxTicks == 2
IsolationTicks == 3
MaxExt == 2
MaxErrors == 3
\* success_rate is kept in 1/FixedPoint units, avg_response_time in whole
\* seconds, both rounded down.
FixedPoint == 100
\* Seconds that pass in one step of the clock.
TimeSteps == {100}
\* Calls and clock steps on the breaker driven on its own, and its clock steps.
MaxOps == 7
BreakerTimeSteps == {1, 300, SecondsPerDay}

Units == {1, 2, 3}
Names == {"a", "b", "c"}
Origins == {"sched", "ext"}

Later(age, d) == IF age = None THEN None ELSE Min(age + d, AgeCap)
Wait(rem, d) == Max(rem - d, 0)

(***************************************************************************)
(* The program's state                                                     *)
(***************************************************************************)
VARIABLES
    units,        \* the unit objects constructed so far
    name,         \* BaseAgent.name
    behav,        \* what the unit's run() does: "ok", "raise" or "any"
    state,        \* BaseAgent.state
    last_active,  \* BaseAgent.last_active (age)
    cb,           \* BaseAgent.circuit_breaker
    hm,           \* BaseAgent.health_metrics
    agents,       \* AgentOrchestrator.agents: name -> unit
    task,         \* the run_agent coroutines: (origin, unit) -> position
    mon,          \* the _monitor_agent_health task of each name
    sch,          \* the schedule_agents coroutine
    extCalls,     \* external run_agent calls made so far
    ev,           \* the step just taken (history)
    tickRun,      \* per unit, what its run_agent of the current tick did
    tripped,      \* "open": the unit's breaker opened and run() was not invoked
                  \* since; "rerun": the first run() since then is in progress
    sinceFail,    \* age of the unit's last recorded failure
    result,       \* per strategy, what it returned when _handle_agent_failure
                  \* last awaited it
    bk,           \* a CircuitBreaker driven on its own
    hist,         \* the calls made on bk, and the time steps between them
    config,       \* the RateLimitConfig the limiter's callers pass
    clock,        \* time.time(), in whole seconds
    windows,      \* SlidingWindowRateLimiter._windows
    backoff_times,\* SlidingWindowRateLimiter._backoff_times
    admitted,     \* per pair, the admitted requests of the last window_seconds
    rl,           \* the limiter call just made and what it returned
    lock,         \* SlidingWindowRateLimiter._lock: the thread holding it
    thr,          \* per thread, the limiter call it is inside of
    metrics_history, \* MonitoringService._metrics_history
    collector,    \* the collector thread: how its last iteration ended and
                  \* the samples it has appended
    series,       \* what psutil reads, as a function of the sample's number
    health,       \* what the /health endpoint just returned
    queried       \* the get_metrics_history call just made and what it returned

unitVars == <<units, name, behav, state, last_active, cb, hm>>
orchVars == <<agents, task, mon, sch, extCalls, ev, tickRun, tripped, sinceFail,
              result>>
cbVars == <<bk, hist>>
rlVars == <<config, clock, windows, backoff_times, admitted, rl, lock, thr>>
msVars == <<metrics_history, collector, series, health, queried>>
vars == <<unitVars, orchVars, cbVars, rlVars, msVars>>

(***************************************************************************)
(* A CircuitBreaker on its own: any sequence of its three methods, with    *)
(* time passing between the calls.                                         *)
(***************************************************************************)
InitBreaker ==
    /\ bk = CircuitBreaker
    /\ hist = <<>>

breaker_record_failure ==
    /\ Len(hist) < MaxOps
    /\ bk' = record_failure(bk)
    /\ hist' = Append(hist, "fail")

breaker_record_success ==
    /\ Len(hist) < MaxOps
    /\ bk' = record_success(bk)
    /\ hist' = Append(hist, "success")

breaker_should_allow_request ==
    /\ Len(hist) < MaxOps
    /\ LET r == should_allow_request(bk) IN
         /\ bk' = r.cb
         /\ hist' = Append(hist, IF r.ret THEN "allow" ELSE "deny")

breaker_time_passes(d) ==
    /\ Len(hist) < MaxOps
    /\ bk.last_failure # None
    /\ bk' = [bk EXCEPT !.last_failure = @ + d]
    /\ hist' = Append(hist, "t")

(***************************************************************************)
(* BaseAgent (agent_orchestration.py lines 115-154)                        *)
(***************************************************************************)
\* health_metrics as BaseAgent.__init__ sets it (success_rate 1.0).
InitialHealthMetrics ==
    [success_rate |-> FixedPoint, avg_response_time |-> 0, error_count |-> 0]

alpha_tenths == 1
min_success_rate_tenths == 8
max_error_count == 5

\* Variant of health_check: error_count is not looked at.
health_check_no_errors(st, h) ==
    /\ st # "failed"
    /\ h.success_rate * 10 >= min_success_rate_tenths * FixedPoint

\* BaseAgent.health_check on a unit in state st with metrics h.
health_check(st, h) ==
    /\ st # "failed"
    /\ h.success_rate * 10 >= min_success_rate_tenths * FixedPoint
    /\ h.error_count < max_error_count

\* Variant of update_health_metrics: error_count is left alone.
update_health_metrics_no_count(h, execution_time, success) ==
    [success_rate |->
        (alpha_tenths * (IF success THEN FixedPoint ELSE 0)
            + (10 - alpha_tenths) * h.success_rate) \div 10,
     avg_response_time |->
        (alpha_tenths * execution_time
            + (10 - alpha_tenths) * h.avg_response_time) \div 10,
     error_count |-> h.error_count]

\* AgentOrchestrator._update_health_metrics; execution_time in seconds.
update_health_metrics(h, execution_time, success) ==
    [success_rate |->
        (alpha_tenths * (IF success THEN FixedPoint ELSE 0)
            + (10 - alpha_tenths) * h.success_rate) \div 10,
     avg_response_time |->
        (alpha_tenths * execution_time
            + (10 - alpha_tenths) * h.avg_response_time) \div 10,
     error_count |-> IF success THEN h.error_count ELSE h.error_count + 1]

(***************************************************************************)
(* AgentOrchestrator (agent_orchestration.py lines 156-333)                *)
(***************************************************************************)
health_check_interval == 60
interval == 60
restart_pause == 1

TaskIds == Origins \X Units

IdleTask == [pc |-> "none", start |-> 0, rem |-> 0, target |-> 0, idx |-> 0]
NewTask == [IdleTask EXCEPT !.pc = "new"]
NoMonitor == [pc |-> "none", rem |-> 0, target |-> 0, idx |-> 0]

\* What the step just taken returned to its caller, if it returned: the call
\* (type), its unit and origin, the value, and for a step that ended a
\* recovery the unit recovered and the strategies tried.
Event(type, u, o, ret, rec, tgt, tried) ==
    [type |-> type, unit |-> u, origin |-> o, ret |-> ret,
     rec |-> rec, target |-> tgt, tried |-> tried]
NoEvent == Event("-", 0, "-", "-", "none", 0, <<>>)

\* Variant of strategies: graceful_shutdown before restart.
strategies_shutdown_first == <<"graceful_shutdown", "restart", "failover">>

\* The order _handle_agent_failure tries the strategies in.
strategies == <<"restart", "failover", "graceful_shutdown">>

\* The strategies tried once the one at position idx has been entered.
Tried(idx) == SubSeq(strategies, 1, Min(idx, Len(strategies)))

\* _recovery_failover(agent_name): `return False`, the unit untouched.
recovery_failover(st) == [ret |-> FALSE, st |-> st]

\* _recovery_shutdown(agent_name) for a registered unit: Stopped, then
\* log_shutdown(); if that raises, the except branch returns False.
recovery_shutdown(st, log_raises) == [ret |-> ~log_raises, st |-> "stopped"]

NoResult == [s \in {strategies[i] : i \in DOMAIN strategies} |-> "-"]

\* result once the strategies of rs, a sequence of <<strategy, bool>>, have
\* returned in that order.
RECURSIVE Reported(_, _)
Reported(res, rs) ==
    IF rs = <<>> THEN res
    ELSE Reported([res EXCEPT ![rs[1][1]] = IF rs[1][2] THEN "True" ELSE "False"],
                  Tail(rs))

\* _handle_agent_failure's loop from strategy i on, for a registered unit
\* whose state is st, up to the first suspension or the loop's end:
\* restart sets Recovering and suspends in its sleep; a strategy that
\* returns True ends the loop, one that returns False lets it go on.
\* log_raises: the unit's log_shutdown() raises.
RECURSIVE try_strategies(_, _, _)
try_strategies(i, st, log_raises) ==
    IF i > Len(strategies)
    THEN [st |-> st, idx |-> i, rec |-> "exhausted", results |-> <<>>]
    ELSE IF strategies[i] = "restart"
         THEN [st |-> "recovering", idx |-> i, rec |-> "begun", results |-> <<>>]
         ELSE LET r == IF strategies[i] = "failover"
                       THEN recovery_failover(st)
                       ELSE recovery_shutdown(st, log_raises)
              IN IF r.ret
                 THEN [st |-> r.st, idx |-> i, rec |-> "done",
                       results |-> <<<<strategies[i], TRUE>>>>]
                 ELSE LET rest == try_strategies(i + 1, r.st, log_raises) IN
                      [rest EXCEPT !.results = <<<<strategies[i], FALSE>>>> \o @]

\* _handle_agent_failure(agent_name) up to its first suspension: the unit
\* the registry holds for the name (None: return at once) becomes Failed,
\* then the strategies run.
handle_agent_failure(n) ==
    IF agents[n] = None
    THEN [target |-> None, st |-> "none", idx |-> 0, rec |-> "none", results |-> <<>>]
    ELSE LET r == try_strategies(1, "failed", FALSE) IN
         [target |-> agents[n], st |-> r.st, idx |-> r.idx, rec |-> r.rec,
          results |-> r.results]

\* The units registry.values() yields.
Registered == {u \in Units : \E n \in Names : agents[n] = u}

\* Variant of eligible: only Idle units are dispatched.
eligible_idle_only(st) == st = "idle"

\* schedule_agents: the state test of its loop over the registry.
eligible(st) == st \notin {"failed", "stopped"}

\* Variant of register_agent: a taken name is overwritten.
register_agent_overwrite(u) ==
    /\ u \in units
    /\ agents' = [agents EXCEPT ![name[u]] = u]
    /\ mon' = [mon EXCEPT ![name[u]] = [NoMonitor EXCEPT !.pc = "sleep"]]
    /\ ev' = Event("register", u, "ext", "True", "none", 0, <<>>)
    /\ UNCHANGED <<unitVars, task, sch, extCalls, tickRun, tripped, sinceFail, result,
                   cbVars, rlVars, msVars>>

\* register_agent(agent): one atomic step (no await in it).
register_agent(u) ==
    /\ u \in units
    /\ IF agents[name[u]] = None
       THEN /\ agents' = [agents EXCEPT ![name[u]] = u]
            \* create_task(_monitor_agent_health(name)): starts at its loop head
            /\ mon' = [mon EXCEPT ![name[u]] = [NoMonitor EXCEPT !.pc = "sleep"]]
            /\ ev' = Event("register", u, "ext", "True", "none", 0, <<>>)
       ELSE /\ UNCHANGED <<agents, mon>>
            /\ ev' = Event("register", u, "ext", "False", "none", 0, <<>>)
    /\ UNCHANGED <<unitVars, task, sch, extCalls, tickRun, tripped, sinceFail, result,
                   cbVars, rlVars, msVars>>

\* run_agent up to its first suspension inside agent.run(): the breaker's
\* gate, then state, last_active and start_time.
run_agent_enter(o, u) ==
    LET r == should_allow_request(cb[u]) IN
    /\ cb' = [cb EXCEPT ![u] = r.cb]
    /\ IF ~r.ret
       THEN /\ task' = [task EXCEPT ![<<o, u>>] = IdleTask]
            /\ ev' = Event("denied", u, o, "None", "none", 0, <<>>)
            /\ tickRun' = IF o = "sched"
                          THEN [tickRun EXCEPT ![u] = "denied"] ELSE tickRun
            /\ UNCHANGED <<state, last_active, tripped>>
       ELSE /\ state' = [state EXCEPT ![u] = "running"]
            /\ last_active' = [last_active EXCEPT ![u] = 0]
            /\ task' = [task EXCEPT ![<<o, u>>] = [IdleTask EXCEPT !.pc = "running"]]
            /\ ev' = NoEvent
            /\ tickRun' = IF o = "sched"
                          THEN [tickRun EXCEPT ![u] = "started"] ELSE tickRun
            /\ tripped' = [tripped EXCEPT ![u] = IF @ = "open" THEN "rerun" ELSE @]
    /\ UNCHANGED <<units, name, behav, hm, agents, mon, sch, sinceFail, result,
                   cbVars, rlVars, msVars>>

\* A caller outside the scheduler awaits run_agent(agent).
external_run_agent(u) ==
    /\ u \in units
    /\ task[<<"ext", u>>].pc = "none"
    /\ extCalls < MaxExt
    /\ extCalls' = extCalls + 1
    /\ run_agent_enter("ext", u)

\* A run_agent task the scheduler gathered starts running.
scheduled_run_agent(u) ==
    /\ task[<<"sched", u>>].pc = "new"
    /\ UNCHANGED extCalls
    /\ run_agent_enter("sched", u)

\* agent.run() returns: lines 196-200.
run_returns(o, u) ==
    /\ task[<<o, u>>].pc = "running"
    /\ behav[u] \in {"ok", "any"}
    /\ cb' = [cb EXCEPT ![u] = record_success(@)]
    /\ hm' = [hm EXCEPT ![u] = update_health_metrics(@, task[<<o, u>>].start, TRUE)]
    /\ task' = [task EXCEPT ![<<o, u>>] = IdleTask]
    /\ ev' = Event("run_ok", u, o, "result", "none", 0, <<>>)
    /\ tickRun' = IF o = "sched" THEN [tickRun EXCEPT ![u] = "ok"] ELSE tickRun
    /\ tripped' = [tripped EXCEPT ![u] = IF @ = "rerun" THEN "no" ELSE @]
    /\ UNCHANGED <<units, name, behav, state, last_active, agents, mon, sch,
                   extCalls, sinceFail, result,
                   cbVars, rlVars, msVars>>

\* agent.run() raises an Exception: lines 201-215, up to the sleep inside
\* the restart strategy when recovery is entered.
run_raises(o, u) ==
    /\ task[<<o, u>>].pc = "running"
    /\ behav[u] \in {"raise", "any"}
    /\ hm[u].error_count < MaxErrors
    /\ LET after == record_failure(cb[u])
           h == handle_agent_failure(name[u])
           rec == IF after.is_open THEN h.rec ELSE "none"
       IN
       /\ cb' = [cb EXCEPT ![u] = after]
       /\ hm' = [hm EXCEPT ![u] = update_health_metrics(@, task[<<o, u>>].start, FALSE)]
       /\ sinceFail' = [sinceFail EXCEPT ![u] = 0]
       /\ tripped' = [tripped EXCEPT ![u] =
                         IF after.is_open THEN "open"
                         ELSE IF @ = "rerun" THEN "no" ELSE @]
       /\ state' = IF after.is_open /\ h.target # None
                   THEN [state EXCEPT ![h.target] = h.st] ELSE state
       /\ task' = [task EXCEPT ![<<o, u>>] =
                      IF rec = "begun"
                      THEN [pc |-> "recovering", start |-> @.start,
                            rem |-> restart_pause, target |-> h.target, idx |-> h.idx]
                      ELSE IdleTask]
       /\ ev' = IF rec = "begun" THEN NoEvent
                ELSE Event("run_raise", u, o, "None", rec,
                           IF after.is_open /\ h.target # None THEN h.target ELSE 0,
                           IF after.is_open THEN Tried(h.idx) ELSE <<>>)
       /\ tickRun' = IF o = "sched" THEN [tickRun EXCEPT ![u] = "raised"] ELSE tickRun
       /\ result' = IF after.is_open THEN Reported(result, h.results) ELSE result
    /\ UNCHANGED <<units, name, behav, last_active, agents, mon, sch, extCalls, cbVars, rlVars, msVars>>

\* _recovery_restart after its sleep (lines 274-276), inside run_agent:
\* _handle_agent_failure returns on the success and run_agent returns None.
run_agent_restarted(o, u) ==
    /\ task[<<o, u>>].pc = "recovering"
    /\ task[<<o, u>>].rem = 0
    /\ LET tgt == task[<<o, u>>].target IN
       /\ cb' = [cb EXCEPT ![tgt] = CircuitBreaker]
       /\ state' = [state EXCEPT ![tgt] = "idle"]
       /\ ev' = Event("restarted", u, o, "None", "done", tgt, Tried(task[<<o, u>>].idx))
    /\ result' = Reported(result, <<<<"restart", TRUE>>>>)
    /\ task' = [task EXCEPT ![<<o, u>>] = IdleTask]
    /\ UNCHANGED <<units, name, behav, last_active, hm, agents, mon, sch, extCalls,
                   tickRun, tripped, sinceFail, cbVars, rlVars, msVars>>

\* One iteration of _monitor_agent_health(n), lines 219-230, up to its
\* sleep or to the sleep inside the restart strategy.
monitor_agent_health(n) ==
    /\ mon[n].pc = "sleep"
    /\ mon[n].rem = 0
    /\ agents[n] # None
    /\ LET u == agents[n]
           h == handle_agent_failure(n)
       IN
       IF health_check(state[u], hm[u])
       THEN /\ mon' = [mon EXCEPT ![n].rem = health_check_interval]
            /\ ev' = NoEvent
            /\ UNCHANGED <<state, result>>
       ELSE /\ state' = [state EXCEPT ![h.target] = h.st]
            /\ result' = Reported(result, h.results)
            /\ mon' = [mon EXCEPT ![n] =
                          IF h.rec = "begun"
                          THEN [pc |-> "recovering", rem |-> restart_pause,
                                target |-> h.target, idx |-> h.idx]
                          ELSE [NoMonitor EXCEPT !.pc = "sleep",
                                                 !.rem = health_check_interval]]
            /\ ev' = IF h.rec = "begun" THEN NoEvent
                     ELSE Event("monitor", u, "mon", "-", h.rec, h.target, Tried(h.idx))
    /\ UNCHANGED <<units, name, behav, last_active, cb, hm, agents, task, sch,
                   extCalls, tickRun, tripped, sinceFail, cbVars, rlVars, msVars>>

\* _recovery_restart after its sleep, inside the monitor; the monitor then
\* sleeps health_check_interval.
monitor_restarted(n) ==
    /\ mon[n].pc = "recovering"
    /\ mon[n].rem = 0
    /\ LET tgt == mon[n].target IN
       /\ cb' = [cb EXCEPT ![tgt] = CircuitBreaker]
       /\ state' = [state EXCEPT ![tgt] = "idle"]
       /\ ev' = Event("restarted", tgt, "mon", "-", "done", tgt, Tried(mon[n].idx))
    /\ result' = Reported(result, <<<<"restart", TRUE>>>>)
    /\ mon' = [mon EXCEPT ![n] = [NoMonitor EXCEPT !.pc = "sleep",
                                                   !.rem = health_check_interval]]
    /\ UNCHANGED <<units, name, behav, last_active, hm, agents, task, sch, extCalls,
                   tickRun, tripped, sinceFail, cbVars, rlVars, msVars>>

\* An iteration of _monitor_agent_health(n) in which the unit's own
\* health_check(), overriding BaseAgent's, raises: the except branch of
\* lines 227-228 logs the error, then the monitor sleeps (line 230).
monitor_health_check_raises(n) ==
    /\ mon[n].pc = "sleep"
    /\ mon[n].rem = 0
    /\ agents[n] # None
    /\ mon' = [mon EXCEPT ![n].rem = health_check_interval]
    /\ ev' = Event("health_check_raised", agents[n], "mon", "-", "none", 0, <<>>)
    /\ UNCHANGED <<unitVars, agents, task, sch, extCalls, tickRun, tripped,
                   sinceFail, result, cbVars, rlVars, msVars>>

\* The sleep inside _recovery_restart raises, inside the monitor: the
\* except branch (lines 277-279) returns False with the state left at
\* Recovering, and _handle_agent_failure goes on to the strategies after
\* restart, up to the end of its loop; the monitor then sleeps.
monitor_restart_fails(n, log_raises) ==
    /\ mon[n].pc = "recovering"
    /\ LET tgt == mon[n].target
           r == try_strategies(mon[n].idx + 1, state[tgt], log_raises)
       IN
       /\ state' = [state EXCEPT ![tgt] = r.st]
       /\ result' = Reported(result, <<<<"restart", FALSE>>>> \o r.results)
       /\ ev' = Event("monitor", tgt, "mon", "-", r.rec, tgt, Tried(r.idx))
    /\ mon' = [mon EXCEPT ![n] = [NoMonitor EXCEPT !.pc = "sleep",
                                                   !.rem = health_check_interval]]
    /\ UNCHANGED <<units, name, behav, last_active, cb, hm, agents, task, sch,
                   extCalls, tickRun, tripped, sinceFail, cbVars, rlVars, msVars>>

\* The list `tasks` one pass of schedule_agents builds (lines 325-328),
\* over the names still to visit.
RECURSIVE tick_tasks(_)
tick_tasks(ns) ==
    IF ns = {} THEN <<>>
    ELSE LET n == CHOOSE x \in ns : TRUE
             rest == tick_tasks(ns \ {n})
         IN IF agents[n] # None /\ eligible(state[agents[n]])
            THEN <<agents[n]>> \o rest ELSE rest

Occurrences(seq, x) == Cardinality({i \in DOMAIN seq : seq[i] = x})

\* One pass of the loop of schedule_agents up to its await: the gather when
\* there are tasks, the sleep otherwise.
schedule_agents ==
    /\ sch.pc = "sleep"
    /\ sch.rem = 0
    /\ sch.left # 0
    /\ LET tasks == tick_tasks(Names) IN
       /\ task' = [t \in TaskIds |->
                     IF t[1] = "sched" /\ Occurrences(tasks, t[2]) > 0
                     THEN NewTask ELSE task[t]]
       /\ sch' = [pc    |-> IF tasks # <<>> THEN "gather" ELSE "sleep",
                   rem   |-> IF tasks # <<>> THEN 0 ELSE interval,
                   left  |-> IF sch.left = None THEN None ELSE sch.left - 1,
                   tasks |-> tasks]
       /\ tickRun' = [u \in Units |-> IF Occurrences(tasks, u) > 0 THEN "new" ELSE "skipped"]
       /\ ev' = NoEvent
    /\ UNCHANGED <<unitVars, agents, mon, extCalls, tripped, sinceFail, result,
                   cbVars, rlVars, msVars>>

\* Variant of gather_completes: a raise in a gathered task ends the loop.
gather_stops_on_raise ==
    /\ sch.pc = "gather"
    /\ \A u \in Units : task[<<"sched", u>>].pc = "none"
    /\ sch' = [sch EXCEPT !.pc = IF \E u \in Units : tickRun[u] = "raised"
                                  THEN "stopped" ELSE "sleep",
                          !.rem = interval]
    /\ ev' = NoEvent
    /\ UNCHANGED <<unitVars, agents, task, mon, extCalls, tickRun, tripped,
                   sinceFail, result,
                   cbVars, rlVars, msVars>>

\* Variant of gather_completes: the gather returns once one gathered
\* run_agent has returned.
gather_completes_first ==
    /\ sch.pc = "gather"
    /\ \E u \in Units : tickRun[u] \notin {"skipped", "new", "started"}
    /\ sch' = [sch EXCEPT !.pc = "sleep", !.rem = interval]
    /\ ev' = NoEvent
    /\ UNCHANGED <<unitVars, agents, task, mon, extCalls, tickRun, tripped,
                   sinceFail, result,
                   cbVars, rlVars, msVars>>

\* asyncio.gather completes when every gathered run_agent has returned;
\* schedule_agents then sleeps interval.
gather_completes ==
    /\ sch.pc = "gather"
    /\ \A u \in Units : task[<<"sched", u>>].pc = "none"
    /\ sch' = [sch EXCEPT !.pc = "sleep", !.rem = interval]
    /\ ev' = NoEvent
    /\ UNCHANGED <<unitVars, agents, task, mon, extCalls, tickRun, tripped,
                   sinceFail, result,
                   cbVars, rlVars, msVars>>

\* A coroutine the event loop can run at once: a gathered task not yet
\* started, a sleep that is over, a gather whose tasks have all returned.
Ready ==
    \/ \E u \in Units : task[<<"sched", u>>].pc = "new"
    \/ \E t \in TaskIds : task[t].pc = "recovering" /\ task[t].rem = 0
    \/ \E n \in Names : mon[n].pc # "none" /\ mon[n].rem = 0
    \/ sch.pc = "sleep" /\ sch.rem = 0 /\ sch.left # 0
    \/ sch.pc = "gather" /\ \A u \in Units : task[<<"sched", u>>].pc = "none"

\* d seconds pass.  The loop runs ready coroutines in far less than one
\* step of the clock, so time passes only when none is ready; a run() in
\* progress may last any time.
time_passes(d) ==
    /\ ~Ready
    /\ last_active' = [u \in Units |-> Later(last_active[u], d)]
    /\ cb' = [u \in Units |-> [cb[u] EXCEPT !.last_failure = Later(@, d)]]
    /\ sinceFail' = [u \in Units |-> Later(sinceFail[u], d)]
    /\ task' = [t \in TaskIds |->
                  IF task[t].pc = "none" THEN task[t]
                  ELSE [task[t] EXCEPT !.start = Min(@ + d, ExecCap), !.rem = Wait(@, d)]]
    /\ mon' = [n \in Names |-> [mon[n] EXCEPT !.rem = Wait(@, d)]]
    /\ sch' = [sch EXCEPT !.rem = Wait(@, d)]
    /\ ev' = NoEvent
    /\ UNCHANGED <<units, name, behav, state, hm, agents, extCalls, tickRun,
                   tripped, result,
                   cbVars, rlVars, msVars>>

(***************************************************************************)
(* SlidingWindowRateLimiter (monitoring/rate_limiter.py).  Every method    *)
(* runs under self._lock, so a call is one step.  clock is time.time() in  *)
(* whole seconds since the limiter was constructed.                        *)
(***************************************************************************)
\* The clock stops here.
MaxTime == 4
\* The largest max_requests and window_seconds of the configs tried.
MaxRequests == 2
MaxWindow == 2
Multipliers == {1, 2}
Keys == {"token1", "token2"}
Endpoints == {"metrics"}
Pairs == Keys \X Endpoints

RateLimitConfig(n, w, m) ==
    [max_requests |-> n, window_seconds |-> w, backoff_multiplier |-> m]

Configs ==
    {RateLimitConfig(n, w, m) : n \in 1..MaxRequests, w \in 1..MaxWindow, m \in Multipliers}

\* api.py: RateLimitConfig(max_requests=60, window_seconds=60), multiplier 2.0
METRICS_RATE_LIMIT == RateLimitConfig(60, 60, 2)

\* b ** e for a natural exponent.
RECURSIVE Pow(_, _)
Pow(b, e) == IF e = 0 THEN 1 ELSE b * Pow(b, e - 1)

\* (backoff_until, violations) of a pair never limited: the defaultdict's (0, 0).
NoBackoff == [backoff_until |-> 0, violations |-> 0]

\* window[:] = [ts for ts in window if ts > cutoff]
prune(window, current_time, cfg) ==
    SelectSeq(window, LAMBDA ts : ts > current_time - cfg.window_seconds)

\* Variant of is_rate_limited: a call made during a backoff starts a new one.
is_rate_limited_extends(window, backoff, current_time, cfg) ==
    LET w == prune(window, current_time, cfg)
        v == backoff.violations + 1
    IN IF current_time < backoff.backoff_until \/ Len(w) >= cfg.max_requests
       THEN [ret |-> TRUE, window |-> w,
             backoff |-> [backoff_until |-> current_time + cfg.window_seconds
                                              * Pow(cfg.backoff_multiplier, v),
                          violations |-> v]]
       ELSE [ret |-> FALSE, window |-> Append(w, current_time), backoff |-> backoff]

\* Variant of is_rate_limited: every violation backs off for window_seconds
\* times the multiplier.
is_rate_limited_flat(window, backoff, current_time, cfg) ==
    LET w == prune(window, current_time, cfg)
        v == backoff.violations + 1
    IN IF current_time < backoff.backoff_until
       THEN [ret |-> TRUE, window |-> w, backoff |-> backoff]
       ELSE IF Len(w) >= cfg.max_requests
            THEN [ret |-> TRUE, window |-> w,
                  backoff |-> [backoff_until |-> current_time + cfg.window_seconds
                                                   * cfg.backoff_multiplier,
                               violations |-> v]]
            ELSE [ret |-> FALSE, window |-> Append(w, current_time),
                  backoff |-> backoff]

\* Variant of is_rate_limited: an admitted request clears the pair's backoff
\* entry.
is_rate_limited_resets(window, backoff, current_time, cfg) ==
    LET w == prune(window, current_time, cfg)
        v == backoff.violations + 1
    IN IF current_time < backoff.backoff_until
       THEN [ret |-> TRUE, window |-> w, backoff |-> backoff]
       ELSE IF Len(w) >= cfg.max_requests
            THEN [ret |-> TRUE, window |-> w,
                  backoff |-> [backoff_until |-> current_time + cfg.window_seconds
                                                   * Pow(cfg.backoff_multiplier, v),
                               violations |-> v]]
            ELSE [ret |-> FALSE, window |-> Append(w, current_time),
                  backoff |-> NoBackoff]

\* Variant of is_rate_limited: every backoff lasts one second.
is_rate_limited_brief(window, backoff, current_time, cfg) ==
    LET w == prune(window, current_time, cfg)
        v == backoff.violations + 1
    IN IF current_time < backoff.backoff_until
       THEN [ret |-> TRUE, window |-> w, backoff |-> backoff]
       ELSE IF Len(w) >= cfg.max_requests
            THEN [ret |-> TRUE, window |-> w,
                  backoff |-> [backoff_until |-> current_time + 1,
                               violations |-> v]]
            ELSE [ret |-> FALSE, window |-> Append(w, current_time),
                  backoff |-> backoff]

\* Variant of is_rate_limited: the limit is reached one request later.
is_rate_limited_gt(window, backoff, current_time, cfg) ==
    LET w == prune(window, current_time, cfg)
        v == backoff.violations + 1
    IN IF current_time < backoff.backoff_until
       THEN [ret |-> TRUE, window |-> w, backoff |-> backoff]
       ELSE IF Len(w) > cfg.max_requests
            THEN [ret |-> TRUE, window |-> w,
                  backoff |-> [backoff_until |-> current_time + cfg.window_seconds
                                                   * Pow(cfg.backoff_multiplier, v),
                               violations |-> v]]
            ELSE [ret |-> FALSE, window |-> Append(w, current_time),
                  backoff |-> backoff]

\* is_rate_limited on a pair's window and backoff entry at current_time:
\* the bool returned, and the window and entry as the call leaves them.
is_rate_limited(window, backoff, current_time, cfg) ==
    LET w == prune(window, current_time, cfg)
        v == backoff.violations + 1
    IN IF current_time < backoff.backoff_until
       THEN [ret |-> TRUE, window |-> w, backoff |-> backoff]
       ELSE IF Len(w) >= cfg.max_requests
            THEN [ret |-> TRUE, window |-> w,
                  backoff |-> [backoff_until |-> current_time + cfg.window_seconds
                                                   * Pow(cfg.backoff_multiplier, v),
                               violations |-> v]]
            ELSE [ret |-> FALSE, window |-> Append(w, current_time),
                  backoff |-> backoff]

\* Variant of get_remaining_quota: no branch for a backoff in force.
get_remaining_quota_window_only(window, backoff, current_time, cfg) ==
    LET w == prune(window, current_time, cfg)
        reset_time == IF w # <<>>
                      THEN Min(w[1] + cfg.window_seconds,
                               current_time + cfg.window_seconds)
                      ELSE current_time + cfg.window_seconds
    IN [remaining |-> Max(0, cfg.max_requests - Len(w)),
        reset     |-> reset_time - current_time,
        window    |-> w]

\* Variant of get_remaining_quota: the query is recorded in the window like
\* a request.
get_remaining_quota_consumes(window, backoff, current_time, cfg) ==
    LET w == prune(window, current_time, cfg)
        reset_time == IF w # <<>>
                      THEN Min(w[1] + cfg.window_seconds,
                               current_time + cfg.window_seconds)
                      ELSE current_time + cfg.window_seconds
    IN IF current_time < backoff.backoff_until
       THEN [remaining |-> 0, reset |-> backoff.backoff_until - current_time,
             window |-> w]
       ELSE [remaining |-> Max(0, cfg.max_requests - Len(w)),
             reset     |-> reset_time - current_time,
             window    |-> Append(w, current_time)]

\* get_remaining_quota: the pair returned, and the window as the call leaves it.
get_remaining_quota(window, backoff, current_time, cfg) ==
    LET w == prune(window, current_time, cfg)
        reset_time == IF w # <<>>
                      THEN Min(w[1] + cfg.window_seconds,
                               current_time + cfg.window_seconds)
                      ELSE current_time + cfg.window_seconds
    IN IF current_time < backoff.backoff_until
       THEN [remaining |-> 0, reset |-> backoff.backoff_until - current_time,
             window |-> w]
       ELSE [remaining |-> Max(0, cfg.max_requests - Len(w)),
             reset     |-> reset_time - current_time,
             window    |-> w]

\* The limiter call just made: which, on which pair, and what it returned.
Call(op, p, ret, remaining, reset) ==
    [op |-> op, pair |-> p, ret |-> ret, remaining |-> remaining, reset |-> reset]
NoCall == Call("-", <<"-", "-">>, FALSE, 0, 0)

\* The threads that call the limiter.
MaxThreads == 3
Threads == 1..MaxThreads

\* A thread outside the limiter, and one inside a call: the call, the
\* time.time() it read, and what it decided from the window and the
\* backoff entry it read.
NoThread ==
    [pc |-> "idle", op |-> "-", pair |-> <<"-", "-">>, time |-> 0, ret |-> FALSE,
     violation |-> FALSE, backoff |-> NoBackoff, remaining |-> 0, reset |-> 0]

\* Variant of lock_acquire: the methods take no lock.
lock_acquire_unlocked(l) == TRUE

\* `with self._lock:` is entered by a thread when no thread holds the lock.
lock_acquire(l) == l = None

\* SlidingWindowRateLimiter() and the one config its callers use.
InitLimiter(cfgs) ==
    /\ config \in cfgs
    /\ clock = 0
    /\ windows = [p \in Pairs |-> <<>>]
    /\ backoff_times = [p \in Pairs |-> NoBackoff]
    /\ admitted = [p \in Pairs |-> <<>>]
    /\ rl = NoCall
    /\ lock = None
    /\ thr = [t \in Threads |-> NoThread]

\* rate_limiter.is_rate_limited(key, endpoint, config)
limiter_is_rate_limited(p) ==
    LET r == is_rate_limited(windows[p], backoff_times[p], clock, config) IN
    /\ lock_acquire(lock)
    /\ windows' = [windows EXCEPT ![p] = r.window]
    /\ backoff_times' = [backoff_times EXCEPT ![p] = r.backoff]
    /\ admitted' = IF r.ret THEN admitted
                   ELSE [admitted EXCEPT ![p] = Append(@, clock)]
    /\ rl' = Call("is_rate_limited", p, r.ret, 0, 0)
    /\ UNCHANGED <<config, clock, lock, thr>>

\* rate_limiter.get_remaining_quota(key, endpoint, config)
limiter_get_remaining_quota(p) ==
    LET r == get_remaining_quota(windows[p], backoff_times[p], clock, config) IN
    /\ lock_acquire(lock)
    /\ windows' = [windows EXCEPT ![p] = r.window]
    /\ rl' = Call("get_remaining_quota", p, FALSE, r.remaining, r.reset)
    /\ UNCHANGED <<config, clock, backoff_times, admitted, lock, thr>>

\* One second passes; admitted requests older than window_seconds are
\* dropped from the record kept of them.
limiter_time_passes ==
    /\ clock < MaxTime
    /\ clock' = clock + 1
    /\ admitted' = [p \in Pairs |->
                      SelectSeq(admitted[p],
                                LAMBDA ts : ts >= clock + 1 - config.window_seconds)]
    /\ rl' = NoCall
    /\ UNCHANGED <<config, windows, backoff_times, lock, thr>>

\* Thread t calls is_rate_limited(key, endpoint, config) for pair p: it
\* enters `with self._lock`, reads the time, prunes the window in place
\* (line 29) and decides from the backoff entry and the window's length
\* (lines 31-37).
thread_is_rate_limited_enter(t, p) ==
    LET r == is_rate_limited(windows[p], backoff_times[p], clock, config) IN
    /\ thr[t].pc = "idle"
    /\ lock_acquire(lock)
    /\ lock' = t
    /\ windows' = [windows EXCEPT ![p] = prune(@, clock, config)]
    /\ thr' = [thr EXCEPT ![t] =
                  [NoThread EXCEPT !.pc = "in", !.op = "is_rate_limited", !.pair = p,
                                   !.time = clock, !.ret = r.ret,
                                   !.violation = (r.backoff # backoff_times[p]),
                                   !.backoff = r.backoff]]
    /\ rl' = NoCall
    /\ UNCHANGED <<config, clock, backoff_times, admitted>>

\* Thread t calls get_remaining_quota for pair p: it enters the lock,
\* prunes the window in place and computes the pair it will return.
thread_get_remaining_quota_enter(t, p) ==
    LET r == get_remaining_quota(windows[p], backoff_times[p], clock, config) IN
    /\ thr[t].pc = "idle"
    /\ lock_acquire(lock)
    /\ lock' = t
    /\ windows' = [windows EXCEPT ![p] = r.window]
    /\ thr' = [thr EXCEPT ![t] =
                  [NoThread EXCEPT !.pc = "in", !.op = "get_remaining_quota",
                                   !.pair = p, !.time = clock,
                                   !.remaining = r.remaining, !.reset = r.reset]]
    /\ rl' = NoCall
    /\ UNCHANGED <<config, clock, backoff_times, admitted>>

\* Thread t finishes its call: is_rate_limited stores the new backoff entry
\* (line 40) or appends its timestamp to the window (line 44); the lock is
\* released and the call returns.
thread_return(t) ==
    LET c == thr[t]
        p == c.pair
    IN
    /\ c.pc = "in"
    /\ IF c.op = "is_rate_limited"
       THEN /\ windows' = IF c.ret THEN windows
                          ELSE [windows EXCEPT ![p] = Append(@, c.time)]
            /\ backoff_times' = IF c.violation
                                THEN [backoff_times EXCEPT ![p] = c.backoff]
                                ELSE backoff_times
            /\ admitted' = IF c.ret THEN admitted
                           ELSE [admitted EXCEPT ![p] = Append(@, c.time)]
            /\ rl' = Call("is_rate_limited", p, c.ret, 0, 0)
       ELSE /\ rl' = Call("get_remaining_quota", p, FALSE, c.remaining, c.reset)
            /\ UNCHANGED <<windows, backoff_times, admitted>>
    /\ lock' = None
    /\ thr' = [thr EXCEPT ![t] = NoThread]
    /\ UNCHANGED <<config, clock>>

(***************************************************************************)
(* MonitoringService (monitoring/__init__.py) and the /health endpoint     *)
(* (monitoring/api.py).  Percentages are whole numbers.  psutil is the     *)
(* environment: what it reads is an input, and it may raise.               *)
(***************************************************************************)
max_history == 1000
prediction_points == 60
prediction_horizon == 60

\* The samples the collector takes where the history's growth is followed.
MaxSamples == 1002
\* The samples the collector takes where the endpoint is called.
MaxCurrent == 1
\* The samples the collector takes where the history is asked for.
MaxQueried == 3

\* A prediction is its value times PredictionScale, a whole number.
RECURSIVE SumSquares(_)
SumSquares(i) ==
    IF i = 0 THEN 0
    ELSE (2 * (i - 1) - (prediction_points - 1)) * (2 * (i - 1) - (prediction_points - 1))
         + SumSquares(i - 1)
PredictionScale == prediction_points * SumSquares(prediction_points)

NoPrediction == [defined |-> FALSE, cpu_percent |-> 0, memory_percent |-> 0]

\* SystemMetrics(...): the fields set from psutil's readings, the timestamp
\* and the prediction.
SystemMetrics(reading, timestamp, prediction) ==
    [cpu_percent |-> reading.cpu_percent,
     memory_percent |-> reading.memory_percent,
     disk_usage |-> reading.disk_usage,
     timestamp |-> timestamp,
     prediction_window |-> prediction]

\* sum of ys[1..i], and of ys[j] times x_j for the x of np.arange, taken
\* about its mean and doubled: 2 * (j - 1) - (N - 1).
RECURSIVE SumY(_, _)
SumY(ys, i) == IF i = 0 THEN 0 ELSE ys[i] + SumY(ys, i - 1)
RECURSIVE SumXY(_, _)
SumXY(ys, i) ==
    IF i = 0 THEN 0
    ELSE (2 * (i - 1) - (Len(ys) - 1)) * ys[i] + SumXY(ys, i - 1)

\* stats.linregress(x, y) with x = 0..N-1, then intercept + slope * (N + 60):
\* the least-squares line at x = N + prediction_horizon, times
\* PredictionScale.
extrapolate(ys) ==
    LET N == Len(ys) IN
    SumY(ys, N) * SumSquares(N)
       + N * (2 * (N + prediction_horizon) - (N - 1)) * SumXY(ys, N)

\* Variant of clamp: the value is passed through.
clamp_none(v) == v

\* max(0, min(100, v)) for v times PredictionScale.
clamp(v) == Max(0, Min(100 * PredictionScale, v))

\* _predict_metrics(): None under 60 samples, else both metrics
\* extrapolated from the last 60.
predict_metrics(history) ==
    IF Len(history) < prediction_points
    THEN NoPrediction
    ELSE LET recent == SubSeq(history, Len(history) - prediction_points + 1,
                              Len(history))
         IN [defined |-> TRUE,
             cpu_percent |->
                clamp(extrapolate([i \in DOMAIN recent |-> recent[i].cpu_percent])),
             memory_percent |->
                clamp(extrapolate([i \in DOMAIN recent |-> recent[i].memory_percent]))]

\* Variant of trim: the sample just appended is the one dropped.
trim_newest(history) ==
    IF Len(history) > max_history
    THEN SubSeq(history, 1, Len(history) - 1) ELSE history

\* if len(self._metrics_history) > 1000: self._metrics_history.pop(0)
trim(history) ==
    IF Len(history) > max_history THEN Tail(history) ELSE history

\* The samples collected so far; a sample's timestamp is its number.
Collected == collector.samples

NoResponse == [status |-> "-", warnings |-> <<>>, critical |-> <<>>, scheduled |-> FALSE]
NoQuery == [minutes |-> None, samples |-> <<>>]

\* One iteration of collect_metrics (lines 44-54) on what psutil reads:
\* the sample with its prediction, the anomaly check (max() of no disk
\* usage raises), the append under the lock and the trim; an exception
\* anywhere is logged and the sample is not kept.  collector.last tells
\* which call raised: _collect_system_metrics, before there is a sample,
\* or _detect_and_handle_anomalies, on the sample obtained.
collect_metrics(reading, psutil_raises) ==
    /\ IF psutil_raises
       THEN /\ collector' = [collector EXCEPT !.last = "collect_error"]
            /\ UNCHANGED metrics_history
       ELSE IF reading.disk_usage = <<>>
       THEN /\ collector' = [collector EXCEPT !.last = "anomaly_error"]
            /\ UNCHANGED metrics_history
       ELSE /\ collector' = [last |-> "ok", samples |-> Collected + 1]
            /\ metrics_history' =
                  trim(Append(metrics_history,
                              SystemMetrics(reading, Collected + 1,
                                            predict_metrics(metrics_history))))
    /\ health' = NoResponse
    /\ queried' = NoQuery
    /\ UNCHANGED series

\* get_current_metrics(): the last sample, or None (the empty sequence).
get_current_metrics ==
    IF metrics_history = <<>> THEN <<>>
    ELSE <<metrics_history[Len(metrics_history)]>>

\* The loop of the endpoint over disk_usage.items(), from path i on.
RECURSIVE disk_status(_, _, _)
disk_status(usage, i, r) ==
    IF i > Len(usage) THEN r
    ELSE disk_status(usage, i + 1,
            IF usage[i] > 95
            THEN [r EXCEPT !.status = "critical",
                           !.critical = Append(@, "disk_critical")]
            ELSE IF usage[i] > 90
                 THEN [r EXCEPT !.status = "degraded",
                                !.warnings = Append(@, "disk_high")]
                 ELSE r)

\* health_check (api.py lines 87-140) on what get_current_metrics returned:
\* status is assigned by each test in turn, cpu, memory, every disk path.
api_health_check(current) ==
    IF current = <<>>
    THEN [NoResponse EXCEPT !.status = "unknown", !.warnings = <<"unavailable">>]
    ELSE LET m == current[1]
             r1 == IF m.cpu_percent > 90
                   THEN [NoResponse EXCEPT !.status = "critical",
                                           !.critical = <<"cpu_critical">>]
                   ELSE IF m.cpu_percent > 80
                        THEN [NoResponse EXCEPT !.status = "degraded",
                                                !.warnings = <<"cpu_high">>]
                        ELSE [NoResponse EXCEPT !.status = "healthy"]
             r2 == IF m.memory_percent > 90
                   THEN [r1 EXCEPT !.status = "critical",
                                   !.critical = Append(@, "memory_critical")]
                   ELSE IF m.memory_percent > 85
                        THEN [r1 EXCEPT !.status = "degraded",
                                        !.warnings = Append(@, "memory_high")]
                        ELSE r1
             r3 == disk_status(m.disk_usage, 1, r2)
             p == m.prediction_window
             r4 == IF p.defined /\ p.cpu_percent > 90 * PredictionScale
                   THEN [r3 EXCEPT !.warnings = Append(@, "cpu_predicted")] ELSE r3
             r5 == IF p.defined /\ p.memory_percent > 90 * PredictionScale
                   THEN [r4 EXCEPT !.warnings = Append(@, "memory_predicted")] ELSE r4
         IN [r5 EXCEPT !.scheduled = (r5.status = "critical")]

\* GET /api/monitoring/health
get_health ==
    /\ health' = api_health_check(get_current_metrics)
    /\ UNCHANGED <<metrics_history, collector, series, queried>>

\* list[start:] for a start of either sign: a negative start counts from
\* the end, and either is clipped to the list.
slice_from(list, start) ==
    LET first == IF start < 0 THEN Max(Len(list) + start, 0) ELSE Min(start, Len(list))
    IN SubSeq(list, first + 1, Len(list))

\* get_metrics_history(minutes): self._metrics_history[-minutes:]
get_metrics_history(minutes) == slice_from(metrics_history, 0 - minutes)

\* A caller (GET /api/monitoring/metrics/history?minutes=...) asks for the
\* history.
query_metrics_history(minutes) ==
    /\ queried' = [minutes |-> minutes, samples |-> get_metrics_history(minutes)]
    /\ UNCHANGED <<metrics_history, collector, series, health>>

\* What psutil reads for sample k under each series: steady, rising or
\* falling by one per sample, or jumping about.
Series == {"flat", "rising", "falling", "saw"}
Level(f, k) ==
    IF f = "flat" THEN 50
    ELSE IF f = "rising" THEN Min(k, 100)
    ELSE IF f = "falling" THEN Max(100 - k, 0)
    ELSE (37 * k) % 101
Companion(f) ==
    IF f = "flat" THEN "saw"
    ELSE IF f = "rising" THEN "falling"
    ELSE IF f = "falling" THEN "rising"
    ELSE "flat"
Reading(f, k) ==
    [cpu_percent |-> Level(f, k), memory_percent |-> Level(Companion(f), k),
     disk_usage |-> <<50>>]

\* Readings on either side of every threshold of the endpoint, for no, one
\* and two disk paths.
CpuLevels == {50, 85, 95}
MemoryLevels == {50, 87, 95}
DiskLevels == {50, 92, 97}
Readings ==
    {[cpu_percent |-> c, memory_percent |-> m, disk_usage |-> d] :
        c \in CpuLevels, m \in MemoryLevels,
        d \in {<<>>} \cup {<<x>> : x \in DiskLevels}
              \cup {<<x, y>> : x \in DiskLevels, y \in DiskLevels}}

\* MonitoringService(): no sample yet.
InitMonitoring(fs) ==
    /\ metrics_history = <<>>
    /\ collector = [last |-> "-", samples |-> 0]
    /\ series \in fs
    /\ health = NoResponse
    /\ queried = NoQuery

(***************************************************************************)
(* Specifications                                                          *)
(***************************************************************************)
DistinctNames == [u \in Units |-> IF u = 1 THEN "a" ELSE IF u = 2 THEN "b" ELSE "c"]
SharedName == [DistinctNames EXCEPT ![2] = "a"]

\* The orchestrator as constructed (lines 159-167) next to units as
\* BaseAgent.__init__ leaves them (lines 118-127), with the units of reg
\* already registered and schedule_agents entered; ticks is the number of
\* passes the model lets its loop make (None: no bound).
InitOrchestrator(us, nm, bh, reg, ticks) ==
    /\ units = us
    /\ name = nm
    /\ behav = bh
    /\ state = [u \in Units |-> "idle"]
    /\ last_active = [u \in Units |-> 0]
    /\ cb = [u \in Units |-> CircuitBreaker]
    /\ hm = [u \in Units |-> InitialHealthMetrics]
    /\ agents = [n \in Names |->
                   IF \E u \in reg : nm[u] = n
                   THEN CHOOSE u \in reg : nm[u] = n ELSE None]
    /\ task = [t \in TaskIds |-> IdleTask]
    /\ mon = [n \in Names |->
                IF \E u \in reg : nm[u] = n
                THEN [NoMonitor EXCEPT !.pc = "sleep"] ELSE NoMonitor]
    /\ sch = [pc |-> "sleep", rem |-> 0, left |-> ticks, tasks |-> <<>>]
    /\ extCalls = 0
    /\ ev = NoEvent
    /\ tickRun = [u \in Units |-> "skipped"]
    /\ tripped = [u \in Units |-> "no"]
    /\ sinceFail = [u \in Units |-> None]
    /\ result = NoResult

\* Two units constructed with the same name, nothing registered yet; every
\* run() may return or raise.
Init ==
    /\ InitOrchestrator({1, 2}, SharedName, [u \in Units |-> "any"], {}, MaxTicks)
    /\ InitBreaker
    /\ InitLimiter({METRICS_RATE_LIMIT})
    /\ InitMonitoring({"flat"})

Next ==
    \* the two units are alike: unit 1 is the one that registers first
    \/ \E u \in Units : (u = 1 \/ agents[name[1]] # None) /\ register_agent(u)
    \/ \E u \in Units : external_run_agent(u)
    \/ \E u \in Units : scheduled_run_agent(u)
    \/ \E o \in Origins, u \in Units : run_returns(o, u)
    \/ \E o \in Origins, u \in Units : run_raises(o, u)
    \/ \E o \in Origins, u \in Units : run_agent_restarted(o, u)
    \/ \E n \in Names : monitor_agent_health(n)
    \/ \E n \in Names : monitor_restarted(n)
    \/ schedule_agents
    \/ gather_completes
    \/ \E d \in TimeSteps : time_passes(d)

Spec == Init /\ [][Next]_vars

\* Three registered units, of which unit 1 raises on every run(), driven by
\* the scheduler and the health monitors alone.
InitIsolation ==
    /\ InitOrchestrator(Units, DistinctNames,
                        [u \in Units |-> IF u = 1 THEN "raise" ELSE "ok"], Units,
                        IsolationTicks)
    /\ InitBreaker
    /\ InitLimiter({METRICS_RATE_LIMIT})
    /\ InitMonitoring({"flat"})

NextIsolation ==
    \/ \E u \in Units : scheduled_run_agent(u)
    \/ \E u \in Units : run_returns("sched", u)
    \/ \E u \in Units : run_raises("sched", u)
    \/ \E u \in Units : run_agent_restarted("sched", u)
    \/ \E n \in Names : monitor_agent_health(n)
    \/ \E n \in Names : monitor_restarted(n)
    \/ schedule_agents
    \/ gather_completes
    \/ \E d \in TimeSteps : time_passes(d)

SpecIsolation == InitIsolation /\ [][NextIsolation]_vars

\* Two registered units, of which unit 1 may raise, and a scheduler whose
\* loop is not bounded.  Every coroutine that can run does run: the event
\* loop resumes each ready coroutine, every run() returns or raises, and
\* time passes.
InitLive ==
    /\ InitOrchestrator({1, 2}, DistinctNames,
                        [u \in Units |-> IF u = 1 THEN "any" ELSE "ok"], {1, 2}, None)
    /\ InitBreaker
    /\ InitLimiter({METRICS_RATE_LIMIT})
    /\ InitMonitoring({"flat"})

Fairness ==
    /\ \A u \in Units : WF_vars(scheduled_run_agent(u))
    /\ \A u \in Units : WF_vars(run_returns("sched", u) \/ run_raises("sched", u))
    /\ \A u \in Units : WF_vars(run_agent_restarted("sched", u))
    /\ \A n \in Names : WF_vars(monitor_agent_health(n))
    /\ \A n \in Names : WF_vars(monitor_restarted(n))
    /\ WF_vars(schedule_agents)
    /\ WF_vars(gather_completes)
    /\ WF_vars(\E d \in TimeSteps : time_passes(d))

LiveSpec == InitLive /\ [][NextIsolation]_vars /\ Fairness

\* The breaker on its own; the orchestrator stays as constructed.
InitBreakerAlone ==
    /\ InitOrchestrator({}, DistinctNames, [u \in Units |-> "any"], {}, 0)
    /\ InitBreaker
    /\ InitLimiter({METRICS_RATE_LIMIT})
    /\ InitMonitoring({"flat"})

NextBreaker ==
    \/ breaker_record_failure /\ UNCHANGED <<unitVars, orchVars, rlVars, msVars>>
    \/ breaker_record_success /\ UNCHANGED <<unitVars, orchVars, rlVars, msVars>>
    \/ breaker_should_allow_request /\ UNCHANGED <<unitVars, orchVars, rlVars, msVars>>
    \/ \E d \in BreakerTimeSteps : breaker_time_passes(d) /\ UNCHANGED <<unitVars, orchVars, rlVars, msVars>>

SpecBreaker == InitBreakerAlone /\ [][NextBreaker]_vars

\* The failures the sampled health metrics count up to.
MaxHealthErrors == 5

\* The health metrics runs of a unit can leave: the closure of the initial
\* metrics under _update_health_metrics with either outcome.
RECURSIVE HealthReach(_)
HealthReach(S) ==
    LET T == S \cup {update_health_metrics(h, 0, TRUE) : h \in S}
               \cup {update_health_metrics(h, 0, FALSE) :
                        h \in {x \in S : x.error_count < MaxHealthErrors}}
    IN IF T = S THEN S ELSE HealthReach(T)

HealthSamples == HealthReach({InitialHealthMetrics})

\* One registered unit, Idle or left Running, with any of the sampled
\* metrics and a breaker as restart leaves it; its run() does bh, and
\* schedule_agents makes ticks passes.
InitSampled(bh, ticks) ==
    /\ units = {1}
    /\ name = DistinctNames
    /\ behav = [u \in Units |-> bh]
    /\ state \in {[u \in Units |-> IF u = 1 THEN st ELSE "idle"] :
                     st \in {"idle", "running"}}
    /\ last_active = [u \in Units |-> 0]
    /\ cb = [u \in Units |-> CircuitBreaker]
    /\ hm \in {[u \in Units |-> IF u = 1 THEN h ELSE InitialHealthMetrics] :
                  h \in HealthSamples}
    /\ agents = [n \in Names |-> IF n = DistinctNames[1] THEN 1 ELSE None]
    /\ task = [t \in TaskIds |-> IdleTask]
    /\ mon = [n \in Names |->
                IF n = DistinctNames[1]
                THEN [NoMonitor EXCEPT !.pc = "sleep"] ELSE NoMonitor]
    /\ sch = [pc |-> "sleep", rem |-> 0, left |-> ticks, tasks |-> <<>>]
    /\ extCalls = 0
    /\ ev = NoEvent
    /\ tickRun = [u \in Units |-> "skipped"]
    /\ tripped = [u \in Units |-> "no"]
    /\ sinceFail = [u \in Units |-> None]
    /\ result = NoResult
    /\ InitBreaker
    /\ InitLimiter({METRICS_RATE_LIMIT})
    /\ InitMonitoring({"flat"})

\* The unit watched by its health monitor alone.
InitHealth == InitSampled("ok", 0)

NextHealth ==
    \/ \E n \in Names : monitor_agent_health(n)
    \/ \E n \in Names : monitor_restarted(n)
    \/ \E d \in TimeSteps : time_passes(d)

SpecHealth == InitHealth /\ [][NextHealth]_vars

\* The unit of InitHealth as a subclass may make it, watched by its health
\* monitor alone: its health_check() may raise, the sleep of a restart may
\* raise, and its log_shutdown() may raise.
NextFaults ==
    \/ \E n \in Names : monitor_agent_health(n)
    \/ \E n \in Names : monitor_restarted(n)
    \/ \E n \in Names : monitor_health_check_raises(n)
    \/ \E n \in Names, log_raises \in BOOLEAN : monitor_restart_fails(n, log_raises)
    \/ \E d \in TimeSteps : time_passes(d)

SpecFaults == InitHealth /\ [][NextFaults]_vars

\* The unit of InitSampled, its run() returning or raising, under the
\* scheduler and its health monitor.
InitWorn == InitSampled("any", IsolationTicks)

SpecWorn == InitWorn /\ [][NextIsolation]_vars

\* The limiter on its own, under each config; the orchestrator and the
\* breaker stay as constructed.
InitLimiterAlone ==
    /\ InitOrchestrator({}, DistinctNames, [u \in Units |-> "any"], {}, 0)
    /\ InitBreaker
    /\ InitLimiter(Configs)
    /\ InitMonitoring({"flat"})

NextLimiter ==
    \/ \E p \in Pairs : limiter_is_rate_limited(p) /\ UNCHANGED <<unitVars, orchVars, cbVars, msVars>>
    \/ \E p \in Pairs : limiter_get_remaining_quota(p) /\ UNCHANGED <<unitVars, orchVars, cbVars, msVars>>
    \/ limiter_time_passes /\ UNCHANGED <<unitVars, orchVars, cbVars, msVars>>

SpecLimiter == InitLimiterAlone /\ [][NextLimiter]_vars

\* The limiter called by several threads at once, all for the same pair; a
\* thread may be preempted anywhere inside a call.
Contended == <<"token1", "metrics">>

NextThreads ==
    \/ \E t \in Threads :
          thread_is_rate_limited_enter(t, Contended) /\ UNCHANGED <<unitVars, orchVars, cbVars, msVars>>
    \/ \E t \in Threads :
          thread_get_remaining_quota_enter(t, Contended) /\ UNCHANGED <<unitVars, orchVars, cbVars, msVars>>
    \/ \E t \in Threads : thread_return(t) /\ UNCHANGED <<unitVars, orchVars, cbVars, msVars>>
    \/ limiter_time_passes /\ UNCHANGED <<unitVars, orchVars, cbVars, msVars>>

SpecThreads == InitLimiterAlone /\ [][NextThreads]_vars

\* The collector thread and the endpoint, psutil reading one of the series;
\* the rest stays as constructed.
InitHistory ==
    /\ InitOrchestrator({}, DistinctNames, [u \in Units |-> "any"], {}, 0)
    /\ InitBreaker
    /\ InitLimiter({METRICS_RATE_LIMIT})
    /\ InitMonitoring(Series)

NextHistory ==
    \/ \E psutil_raises \in BOOLEAN :
          /\ Collected < MaxSamples
          /\ collect_metrics(Reading(series, Collected + 1), psutil_raises)
          /\ UNCHANGED <<unitVars, orchVars, cbVars, rlVars>>
    \/ get_health /\ UNCHANGED <<unitVars, orchVars, cbVars, rlVars>>

SpecHistory == InitHistory /\ [][NextHistory]_vars

\* The collector's first samples and callers asking for the history: for
\* none of it, part of it, all of it and more than there is.
NextQuery ==
    \/ \E psutil_raises \in BOOLEAN :
          /\ Collected < MaxQueried
          /\ collect_metrics(Reading(series, Collected + 1), psutil_raises)
          /\ UNCHANGED <<unitVars, orchVars, cbVars, rlVars>>
    \/ \E minutes \in 0..(MaxQueried + 1) :
          /\ query_metrics_history(minutes)
          /\ UNCHANGED <<unitVars, orchVars, cbVars, rlVars>>

SpecQuery == InitHistory /\ [][NextQuery]_vars

\* The endpoint called on whatever the collector's first samples hold.
InitEndpoint ==
    /\ InitOrchestrator({}, DistinctNames, [u \in Units |-> "any"], {}, 0)
    /\ InitBreaker
    /\ InitLimiter({METRICS_RATE_LIMIT})
    /\ InitMonitoring({"flat"})

NextEndpoint ==
    \/ \E reading \in Readings, psutil_raises \in BOOLEAN :
          /\ Len(metrics_history) < MaxCurrent
          /\ collect_metrics(reading, psutil_raises)
          /\ UNCHANGED <<unitVars, orchVars, cbVars, rlVars>>
    \/ get_health /\ UNCHANGED <<unitVars, orchVars, cbVars, rlVars>>

SpecEndpoint == InitEndpoint /\ [][NextEndpoint]_vars

(***************************************************************************)
(* Properties                                                              *)
(***************************************************************************)
Last(seq) == seq[Len(seq)]
ThreeFailures == <<"fail", "fail", "fail">>

\* hist is three record_failure calls on a fresh breaker, no record_success
\* among them, followed by nothing but time and denied admission checks.
JustFailedThrice ==
    /\ SelectSeq(hist, LAMBDA x : x \in {"fail", "success"}) = ThreeFailures
    /\ \A i \in DOMAIN hist :
          hist[i] = "allow" => \E j \in DOMAIN hist : j > i /\ hist[j] = "fail"

\* C2: on a fresh CircuitBreaker (failure_threshold 3) three record_failure
\* calls with no record_success between them leave is_open true, and every
\* should_allow_request made on an open breaker while no more than
\* recovery_timeout seconds have passed since the last failure returns False
\* and leaves the breaker's fields as they were.
C2_ThresholdOpensAndDenies ==
    /\ [](JustFailedThrice => bk.is_open)
    /\ [][(/\ Len(hist') = Len(hist) + 1
           /\ Last(hist') \in {"allow", "deny"}
           /\ bk.is_open
           /\ bk.last_failure # None
           /\ bk.last_failure <= recovery_timeout)
          => (Last(hist') = "deny" /\ bk' = bk)]_vars

\* Three failures, then a check exactly recovery_timeout seconds later: denied.
C2_Witness ==
    /\ Len(hist) > 0
    /\ Last(hist) = "deny"
    /\ JustFailedThrice
    /\ bk.is_open
    /\ bk.last_failure = recovery_timeout

\* run() is invoked for unit u in this step.
RunStarts(u) ==
    \E o \in Origins : task[<<o, u>>].pc # "running" /\ task'[<<o, u>>].pc = "running"

\* C1 as stated: once a unit's breaker has opened, its run() is not invoked
\* again until more than recovery_timeout seconds after the last recorded
\* failure.
C1_NoRunUntilTimeout ==
    [][\A u \in Units :
          (RunStarts(u) /\ tripped[u] = "open") => sinceFail[u] > recovery_timeout]_vars

\* C1, amended: run() is invoked only for a unit whose breaker, at that
\* moment, is closed or had its last failure more than recovery_timeout
\* seconds ago; a breaker that opened and was since replaced by the restart
\* recovery (or closed by a concurrent success) admits at once.
C1_RunOnlyWhenGateAdmits ==
    [][\A u \in Units :
          RunStarts(u) =>
             \/ ~cb[u].is_open
             \/ /\ cb[u].last_failure # None
                /\ timedelta_seconds(cb[u].last_failure) > recovery_timeout]_vars

\* A unit whose breaker opened is running again within recovery_timeout of
\* its last failure, its breaker having been replaced by a fresh one.
C1_Witness ==
    \E u \in Units :
       /\ tripped[u] = "rerun"
       /\ sinceFail[u] <= recovery_timeout
       /\ cb[u] = CircuitBreaker
       /\ \E o \in Origins : task[<<o, u>>].pc = "running"

\* The number of names the registry holds.
RegistrySize == Cardinality({n \in Names : agents[n] # None})

\* C3: register_agent with a name the registry already holds returns False
\* and changes nothing: the name keeps its unit, the registry keeps its size
\* and no second monitor is started; with a free name it returns True and
\* the registry grows by that one entry.
C3_DuplicateRegistration ==
    [][ev'.type = "register" =>
          LET n == name[ev'.unit] IN
          IF agents[n] # None
          THEN /\ ev'.ret = "False"
               /\ agents' = agents
               /\ mon' = mon
               /\ RegistrySize' = RegistrySize
               /\ UNCHANGED <<unitVars, task, sch>>
          ELSE /\ ev'.ret = "True"
               /\ agents' = [agents EXCEPT ![n] = ev'.unit]
               /\ RegistrySize' = RegistrySize + 1]_vars

\* Unit 2, constructed with unit 1's name, was refused: the name still maps
\* to unit 1 and the registry holds one entry.
C3_Witness ==
    /\ ev.type = "register"
    /\ ev.ret = "False"
    /\ ev.unit = 2
    /\ agents[name[2]] = 1
    /\ RegistrySize = 1

\* C4: when the breaker denies admission run_agent returns None, run() is
\* not invoked, and the unit's state, last_active, health metrics and
\* breaker are as they were.
C4_DenialHasNoEffect ==
    [][ev'.type = "denied" =>
          /\ ev'.ret = "None"
          /\ cb[ev'.unit].is_open
          /\ ~RunStarts(ev'.unit)
          /\ task'[<<ev'.origin, ev'.unit>>] = IdleTask
          /\ UNCHANGED <<state, last_active, hm, cb>>]_vars

\* A run_agent call was denied on a breaker that is open.
C4_Witness ==
    /\ ev.type = "denied"
    /\ cb[ev.unit].is_open
    /\ cb[ev.unit].failure_count >= failure_threshold

\* run() of the call (o, u) raises in this step.
RunRaises(o, u) ==
    /\ task[<<o, u>>].pc = "running"
    /\ task'[<<o, u>>].pc # "running"
    /\ ev'.type # "run_ok"

\* C5: when run() raises, run_agent records one breaker failure and one
\* metrics update with success false, enters recovery exactly when the
\* breaker is open after that failure (for a registered name), and returns
\* None to its caller, at once or when the recovery is over.
C5_RaiseIsHandled ==
    [][/\ \A o \in Origins, u \in Units :
            RunRaises(o, u) =>
               /\ cb'[u].failure_count = cb[u].failure_count + 1
               /\ cb'[u].last_failure = 0
               /\ hm'[u].error_count = hm[u].error_count + 1
               /\ hm'[u].success_rate <= hm[u].success_rate
               /\ \A v \in Units \ {u} : cb'[v] = cb[v] /\ hm'[v] = hm[v]
               /\ agents[name[u]] # None =>
                     (task'[<<o, u>>].pc = "recovering" <=> cb'[u].is_open)
               /\ task'[<<o, u>>].pc # "recovering" =>
                     (task'[<<o, u>>] = IdleTask /\ ev'.type = "run_raise"
                        /\ ev'.ret = "None")
       /\ (ev'.type = "restarted" /\ ev'.origin # "mon") => ev'.ret = "None"
      ]_vars

\* A raise opened the breaker of a registered unit and its run_agent is
\* inside the recovery.
C5_Witness ==
    \E o \in Origins, u \in Units :
       /\ task[<<o, u>>].pc = "recovering"
       /\ cb[u].is_open
       /\ cb[u].failure_count = failure_threshold
       /\ hm[u].error_count >= failure_threshold
       /\ sinceFail[u] = 0

\* C6 as stated: when run_agent returns after run() succeeded, the unit's
\* state is Idle.
C6_IdleAfterSuccess ==
    ev.type = "run_ok" => state[ev.unit] = "idle"

\* C7: a recovery tries restart first; when restart has succeeded the unit
\* is Idle with a fresh breaker and neither failover nor graceful_shutdown
\* was invoked: no unit is ever Stopped and no recovery ends without
\* success.
C7_RestartFirst ==
    /\ \A t \in TaskIds : task[t].pc = "recovering" =>
          (Tried(task[t].idx) = <<"restart">> /\ agents[name[task[t].target]] = task[t].target)
    /\ \A n \in Names : mon[n].pc = "recovering" =>
          (Tried(mon[n].idx) = <<"restart">> /\ agents[n] = mon[n].target)
    /\ ev.rec = "done" =>
          /\ ev.type = "restarted"
          /\ ev.tried = <<"restart">>
          /\ state[ev.target] = "idle"
          /\ cb[ev.target] = CircuitBreaker
    /\ ev.rec # "exhausted"
    /\ \A u \in Units : state[u] \notin {"stopped", "failed"}

\* A recovery that run_agent entered on an open breaker has just ended with
\* the restart: the unit is Idle and its breaker fresh.
C7_Witness ==
    /\ ev.type = "restarted"
    /\ ev.origin # "mon"
    /\ ev.rec = "done"
    /\ ev.tried = <<"restart">>
    /\ tripped[ev.target] = "open"
    /\ state[ev.target] = "idle"
    /\ cb[ev.target].failure_count = 0
    /\ ~cb[ev.target].is_open

\* C8: a pass of schedule_agents dispatches run_agent exactly once for each
\* registered unit whose state is neither Failed nor Stopped, and for no
\* other unit.
C8_TickDispatchesEligible ==
    [][(sch.pc = "sleep" /\ sch'.left # sch.left) =>
          \A u \in Units :
             LET due == u \in Registered /\ state[u] \notin {"failed", "stopped"} IN
             /\ Occurrences(sch'.tasks, u) = (IF due THEN 1 ELSE 0)
             /\ due => task'[<<"sched", u>>] = NewTask
             /\ ~due => task'[<<"sched", u>>] = task[<<"sched", u>>]
             /\ task'[<<"ext", u>>] = task[<<"ext", u>>]]_vars

\* A pass has just dispatched a registered unit whose state is Running
\* (left so by an earlier success), and passed over the unregistered unit.
C8_Witness ==
    /\ sch.pc = "gather"
    /\ \E u \in Units :
          /\ task[<<"sched", u>>].pc = "new"
          /\ state[u] = "running"
          /\ sch.tasks = <<u>>
    /\ \E v \in units : v \notin Registered /\ tickRun[v] = "skipped"

\* The passes of schedule_agents that are over.
TicksDone == IsolationTicks - sch.left
BetweenTicks == sch.pc = "sleep" /\ TicksDone >= 1

\* C9 as stated: after three ticks the failing unit's breaker is open.
C9_BreakerOpenAfterThreeTicks ==
    (BetweenTicks /\ TicksDone = failure_threshold) => cb[1].is_open

\* C9, amended: with three registered units of which unit 1 raises on every
\* run(), the breaker of unit 1 opens on the third tick and the restart
\* recovery replaces it with a fresh closed one before that tick is over; on
\* every tick the other two units have run() invoked and completed
\* successfully.
C9_PartialFailureIsolation ==
    /\ BetweenTicks =>
          /\ tickRun[1] = "raised"
          /\ \A u \in Units \ {1} : tickRun[u] = "ok" /\ hm[u].error_count = 0
          /\ hm[1].error_count = TicksDone
    /\ (BetweenTicks /\ TicksDone = failure_threshold) =>
          (tripped[1] = "open" /\ cb[1] = CircuitBreaker)
    /\ cb[1].is_open =>
          /\ TicksDone = failure_threshold
          /\ task[<<"sched", 1>>].pc = "recovering"
    /\ \A u \in Units \ {1} : ~cb[u].is_open /\ cb[u].failure_count = 0

\* The third tick is over: unit 1's breaker opened in it and is closed
\* again, the other two units ran successfully.
C9_Witness ==
    /\ BetweenTicks
    /\ TicksDone = failure_threshold
    /\ tripped[1] = "open"
    /\ ~cb[1].is_open
    /\ hm[1].error_count = failure_threshold
    /\ \A u \in Units \ {1} : tickRun[u] = "ok"

\* C10: when every run() returns or raises in finite time the loop of
\* schedule_agents never stops: whatever a unit's run() raised, every unit
\* whose state stays outside Failed and Stopped is dispatched again and
\* again, and every gather returns.
C10_SchedulerNeverStops ==
    /\ \A u \in {1, 2} :
          [](state[u] \notin {"failed", "stopped"})
             => []<>(task[<<"sched", u>>].pc = "new")
    /\ (sch.pc = "gather") ~> (sch.pc = "sleep")

\* Unit 1 has raised as often as the model lets it, its breaker opened, and
\* a later tick has dispatched both units again.
C10_Witness ==
    /\ hm[1].error_count = MaxErrors
    /\ tripped[1] = "open"
    /\ sch.pc = "gather"
    /\ task[<<"sched", 1>>].pc = "new"
    /\ task[<<"sched", 2>>].pc = "new"

\* The requests of pair p admitted in the window [clock - window_seconds, clock].
AdmittedInClosedWindow(p) == Len(admitted[p])

\* The requests of pair p admitted less than window_seconds ago.
AdmittedInSpan(p) ==
    Len(SelectSeq(admitted[p], LAMBDA ts : ts > clock - config.window_seconds))

\* C11 as stated: for every pair the admitted requests with timestamps in
\* any window [t - window_seconds, t] number at most max_requests.
C11_WindowNeverExceeded ==
    \A p \in Pairs : AdmittedInClosedWindow(p) <= config.max_requests

\* An is_rate_limited call on pair p is made in this step.
LimitedCall(p) == rl'.op = "is_rate_limited" /\ rl'.pair = p

\* C12: with no backoff in force, the is_rate_limited calls of a pair made
\* less than window_seconds apart are admitted while fewer than max_requests
\* were admitted in that span, and the next one is denied: from an empty
\* window the first N are admitted and the (N+1)-th is denied.
C12_FirstNAdmittedNextDenied ==
    [][\A p \in Pairs :
          (LimitedCall(p) /\ clock >= backoff_times[p].backoff_until) =>
             (rl'.ret <=> AdmittedInSpan(p) >= config.max_requests)]_vars

\* Two requests admitted one second apart under max_requests = 2, and the
\* third, in the same span, has just been denied: the pair's first violation.
C12_Witness ==
    \E p \in Pairs :
       /\ config.max_requests = 2
       /\ rl = Call("is_rate_limited", p, TRUE, 0, 0)
       /\ admitted[p] = <<clock - 1, clock>>
       /\ windows[p] = admitted[p]
       /\ backoff_times[p].violations = 1

\* C13: is_rate_limited called while clock < backoff_until returns True,
\* appends nothing to the window (it only prunes it) and leaves
\* backoff_until and violations as they were.
C13_BackoffDenialFrame ==
    [][\A p \in Pairs :
          (LimitedCall(p) /\ clock < backoff_times[p].backoff_until) =>
             /\ rl'.ret
             /\ backoff_times' = backoff_times
             /\ windows'[p] = prune(windows[p], clock, config)
             /\ \A i \in DOMAIN windows'[p] :
                   \E j \in DOMAIN windows[p] : windows[p][j] = windows'[p][i]
             /\ Len(windows'[p]) <= Len(windows[p])
             /\ admitted' = admitted]_vars

\* A call was denied inside a backoff, later than the violation that set it.
C13_Witness ==
    \E p \in Pairs :
       /\ rl = Call("is_rate_limited", p, TRUE, 0, 0)
       /\ clock < backoff_times[p].backoff_until
       /\ backoff_times[p].violations = 1
       /\ clock > backoff_times[p].backoff_until
                    - config.window_seconds * config.backoff_multiplier

\* C14: no step lowers a pair's violations or its backoff_until.
C14_BackoffNeverShrinks ==
    [][\A p \in Pairs :
          /\ backoff_times'[p].violations >= backoff_times[p].violations
          /\ backoff_times'[p].backoff_until >= backoff_times[p].backoff_until]_vars

\* A request was admitted after the pair's backoff ran out; the entry still
\* holds the violation and the old backoff_until.
C14_Witness ==
    \E p \in Pairs :
       /\ rl = Call("is_rate_limited", p, FALSE, 0, 0)
       /\ backoff_times[p].violations >= 1
       /\ backoff_times[p].backoff_until > 0
       /\ clock >= backoff_times[p].backoff_until

\* C15: the k-th violation of a pair sets backoff_until to
\* clock + window_seconds * multiplier^k, so each violation backs off
\* multiplier times as long as the one before.
C15_BackoffGrowsByMultiplier ==
    [][\A p \in Pairs :
          backoff_times'[p] # backoff_times[p] =>
             LET k == backoff_times[p].violations + 1 IN
             /\ backoff_times'[p].violations = k
             /\ backoff_times'[p].backoff_until =
                   clock + config.window_seconds * Pow(config.backoff_multiplier, k)
             /\ k >= 2 =>
                   backoff_times'[p].backoff_until - clock =
                      config.backoff_multiplier
                        * (config.window_seconds * Pow(config.backoff_multiplier, k - 1))
             /\ rl'.ret]_vars

\* The second violation under multiplier 2: a backoff of four windows.
C15_Witness ==
    \E p \in Pairs :
       /\ config.backoff_multiplier = 2
       /\ rl = Call("is_rate_limited", p, TRUE, 0, 0)
       /\ backoff_times[p].violations = 2
       /\ backoff_times[p].backoff_until = clock + 4 * config.window_seconds

\* C16 as stated: get_remaining_quota returns max(0, max_requests - len of
\* the pruned window) in every state.
C16_RemainingFromWindowAlways ==
    rl.op = "get_remaining_quota" =>
       rl.remaining = Max(0, config.max_requests - Len(windows[rl.pair]))

\* C16, amended: outside a backoff get_remaining_quota returns
\* max(0, max_requests - len of the pruned window) and the time until the
\* oldest entry expires (window_seconds when the window is empty); while
\* clock < backoff_until it returns 0 and backoff_until - clock whatever the
\* window holds; right after a denial it returns 0 and a positive time.
C16_RemainingQuota ==
    /\ [](rl.op = "get_remaining_quota" =>
            LET w == windows[rl.pair]
                b == backoff_times[rl.pair]
            IN IF clock < b.backoff_until
               THEN rl.remaining = 0 /\ rl.reset = b.backoff_until - clock
               ELSE /\ rl.remaining = Max(0, config.max_requests - Len(w))
                    /\ rl.reset = IF w = <<>> THEN config.window_seconds
                                  ELSE w[1] + config.window_seconds - clock
                    /\ rl.reset > 0)
    /\ [][(rl.op = "is_rate_limited" /\ rl.ret
             /\ rl'.op = "get_remaining_quota" /\ rl'.pair = rl.pair)
          => (rl'.remaining = 0 /\ rl'.reset > 0)]_vars

\* A quota query inside a backoff, the window already pruned below
\* max_requests: it reports 0 remaining.
C16_Witness ==
    /\ rl.op = "get_remaining_quota"
    /\ clock < backoff_times[rl.pair].backoff_until
    /\ Len(windows[rl.pair]) < config.max_requests
    /\ rl.remaining = 0
    /\ rl.reset = backoff_times[rl.pair].backoff_until - clock

\* The method calls of h that changed or could change the breaker: h without
\* its time steps and its denied checks.
Effective(h) == SelectSeq(h, LAMBDA x : x \notin {"t", "deny"})

\* hist up to its i-th entry is three failures on a fresh breaker, then
\* time and denied checks, then the check that was admitted as the probe.
ProbeAdmittedAt(i) ==
    /\ i \in DOMAIN hist
    /\ hist[i] = "allow"
    /\ Effective(SubSeq(hist, 1, i)) = ThreeFailures \o <<"allow">>

\* C17 as stated: after the probe was admitted on an open breaker, one
\* record_failure reopens the breaker and sets last_failure to that moment.
C17_ProbeFailureReopens ==
    (Len(hist) >= 2 /\ ProbeAdmittedAt(Len(hist) - 1) /\ Last(hist) = "fail")
       => (bk.is_open /\ bk.last_failure = 0)

\* C18 as stated: once the probe was admitted, a further should_allow_request
\* made before any record_success or record_failure is denied.
C18_SingleProbe ==
    (Len(hist) >= 2 /\ ProbeAdmittedAt(Len(hist) - 1)
       /\ Last(hist) \in {"allow", "deny"})
       => Last(hist) = "deny"

\* C19 as stated: should_allow_request on an open breaker returns True and
\* resets failure_count and is_open for every elapsed time above
\* recovery_timeout, a day or more included, and False for every elapsed
\* time up to recovery_timeout.
C19_AdmitsAfterTimeout ==
    [][(/\ Len(hist') = Len(hist) + 1
        /\ Last(hist') \in {"allow", "deny"}
        /\ bk.is_open
        /\ bk.last_failure # None)
       => IF bk.last_failure > recovery_timeout
          THEN /\ Last(hist') = "allow"
               /\ bk'.failure_count = 0
               /\ ~bk'.is_open
          ELSE Last(hist') = "deny"]_vars

\* The monitor of name n makes one iteration in this step.
MonitorIteration(n) ==
    /\ mon[n].pc = "sleep"
    /\ mon[n].rem = 0
    /\ mon'[n] # mon[n]

\* C20: health_check is true exactly when the state is not Failed, the
\* success rate is at least 0.8 and error_count is below 5; a monitor
\* iteration that finds the unit healthy leaves it alone, and one that finds
\* it unhealthy enters the recovery chain at its first strategy, restart.
C20_HealthCheckAndRecovery ==
    /\ [](\A u \in units :
            health_check(state[u], hm[u]) <=>
               /\ state[u] # "failed"
               /\ hm[u].success_rate * 10 >= 8 * FixedPoint
               /\ hm[u].error_count < 5)
    /\ [][\A n \in Names :
            MonitorIteration(n) =>
               LET u == agents[n]
                   healthy == /\ state[u] # "failed"
                              /\ hm[u].success_rate * 10 >= 8 * FixedPoint
                              /\ hm[u].error_count < 5
               IN IF healthy
                  THEN /\ mon'[n].pc = "sleep"
                       /\ mon'[n].rem = health_check_interval
                       /\ state' = state
                  ELSE /\ mon'[n].pc = "recovering"
                       /\ mon'[n].target = u
                       /\ Tried(mon'[n].idx) = <<"restart">>
                       /\ state'[u] = "recovering"]_vars

\* A unit with success rate 0.8 or more is in recovery: the monitor found it
\* unhealthy for its five errors alone.
C20_Witness ==
    \E n \in Names :
       /\ mon[n].pc = "recovering"
       /\ hm[mon[n].target].success_rate * 10 >= 8 * FixedPoint
       /\ hm[mon[n].target].error_count = 5
       /\ state[mon[n].target] = "recovering"

\* C28: whatever sequence of record_failure, record_success and
\* should_allow_request was made on a CircuitBreaker, with any time between
\* the calls, is_open is true only if failure_count >= failure_threshold.
C28_OpenOnlyAtThreshold ==
    bk.is_open => bk.failure_count >= failure_threshold

\* An open breaker whose history holds a success and an admitted check: it
\* was closed by them and opened again by failures counted from zero.
C28_Witness ==
    /\ bk.is_open
    /\ bk.failure_count = failure_threshold
    /\ \E i \in DOMAIN hist : hist[i] = "success"
    /\ \E i \in DOMAIN hist : hist[i] = "fail" /\ i < Len(hist) - failure_threshold

\* The record_failure and record_success calls of h, in order.
Outcomes(h) == SelectSeq(h, LAMBDA x : x \in {"fail", "success"})

\* The last failure_threshold outcomes of h are failures.
EndsInThresholdFailures(h) ==
    LET o == Outcomes(h) IN
    /\ Len(o) >= failure_threshold
    /\ \A i \in (Len(o) - failure_threshold + 1)..Len(o) : o[i] = "fail"

\* C29: record_success leaves failure_count at 0; a closed breaker opens
\* only on a record_failure that is the last of failure_threshold failures
\* with no success between them; and a breaker whose failures were never
\* failure_threshold in a row is closed, however many they are.
C29_SuccessResetsCount ==
    /\ [][(Len(hist') = Len(hist) + 1 /\ Last(hist') = "success")
             => bk'.failure_count = 0]_vars
    /\ [][(~bk.is_open /\ bk'.is_open)
             => (Last(hist') = "fail" /\ EndsInThresholdFailures(hist'))]_vars
    /\ []((\A i \in DOMAIN hist : ~EndsInThresholdFailures(SubSeq(hist, 1, i)))
             => ~bk.is_open)

\* Four failures in all, a success after the second: the breaker is closed
\* with two failures counted.
C29_Witness ==
    /\ Outcomes(hist) = <<"fail", "fail", "success", "fail", "fail">>
    /\ ~bk.is_open
    /\ bk.failure_count = 2

\* This step assigns unit u's state, replaces or updates its breaker, or
\* updates its health metrics.
UnitModified(u) ==
    \/ state'[u] # state[u]
    \/ hm'[u] # hm[u]
    \/ cb'[u].failure_count # cb[u].failure_count
    \/ cb'[u].is_open # cb[u].is_open
    \/ (cb'[u].last_failure = None) # (cb[u].last_failure = None)

\* The scheduler's run_agent(u) is between its first access to the unit (the
\* breaker's gate) and its last (the metrics update, or the end of the
\* recovery it entered).
SchedulerInRunAgent(u) == task[<<"sched", u>>].pc \in {"running", "recovering"}

\* A health monitor is between the first access of its recovery to unit u
\* (state = FAILED) and the last (state = IDLE after the restart).
MonitorInRecovery(u) ==
    \E n \in Names : mon[n].pc = "recovering" /\ mon[n].target = u

\* This step is one of the scheduler's run_agent(u).
SchedulerStep(u) ==
    /\ task[<<"sched", u>>].pc # "none"
    /\ task'[<<"sched", u>>].pc # task[<<"sched", u>>].pc

\* This step is one of a health monitor's, on unit u.
MonitorStep(u) ==
    \E n \in Names :
       \/ MonitorIteration(n) /\ agents[n] = u
       \/ mon[n].pc = "recovering" /\ mon[n].target = u /\ mon'[n].pc = "sleep"

\* C27 as stated: a health monitor's recovery does not modify a unit's
\* state, breaker or metrics while the scheduler's run_agent for that unit
\* is between its first and last access to them, nor run_agent while the
\* monitor's recovery is.
C27_MutualExclusion ==
    [][\A u \in Units :
          /\ (MonitorStep(u) /\ UnitModified(u)) => ~SchedulerInRunAgent(u)
          /\ (SchedulerStep(u) /\ UnitModified(u)) => ~MonitorInRecovery(u)]_vars

\* The monitor of name n makes an iteration in this step, and the unit's
\* health_check() raises in it.
HealthCheckRaises(n) ==
    /\ MonitorIteration(n)
    /\ ev'.type = "health_check_raised"

\* C21 as stated: a monitor iteration in which health_check raises enters
\* the recovery chain for the unit as one in which it returns False does
\* (the unit Recovering, inside restart), and the monitor goes on to its
\* next iteration.
C21_RaiseIsUnhealthy ==
    [][\A n \in Names :
          HealthCheckRaises(n) =>
             /\ mon'[n].pc = "recovering"
             /\ mon'[n].target = agents[n]
             /\ state'[agents[n]] = "recovering"]_vars

\* C22 as stated: failover never reports success, and what it reports is
\* not what a strategy that failed reports.
C22_FailoverDistinct ==
    /\ result["failover"] # "True"
    /\ \A s \in DOMAIN result :
          (s # "failover" /\ result["failover"] # "-" /\ result[s] = "False")
             => result["failover"] # result[s]

\* C30 as stated: when _handle_agent_failure returns with every strategy
\* having failed, the unit's state is Failed.
C30_ExhaustedLeavesFailed ==
    ev.rec = "exhausted" => state[ev.target] = "failed"

\* The threads inside a limiter method.
Inside == {t \in Threads : thr[t].pc = "in"}

\* The timestamps of seq less than window_seconds old.
InSpan(seq) == SelectSeq(seq, LAMBDA ts : ts > clock - config.window_seconds)

\* C26: is_rate_limited and get_remaining_quota run one at a time under the
\* lock; with the threads calling at once for the same pair, at most
\* max_requests requests are admitted within window_seconds of each other,
\* the window holds every admitted timestamp of that span, and every
\* violation adds one to the violations the entry holds at that moment.
C26_LockSerializes ==
    /\ [](Cardinality(Inside) <= 1)
    /\ [](\A p \in Pairs :
            /\ AdmittedInSpan(p) <= config.max_requests
            /\ InSpan(windows[p]) = InSpan(admitted[p]))
    /\ [][\A t \in Threads :
            (thr[t].pc = "in" /\ thr'[t].pc = "idle" /\ thr[t].violation)
               => backoff_times'[thr[t].pair].violations
                     = backoff_times[thr[t].pair].violations + 1]_vars

\* Under max_requests = 1 a thread is inside is_rate_limited for a pair
\* with a request admitted in the same second and one violation recorded,
\* holding the lock and about to be denied.
C26_Witness ==
    \E t \in Threads, p \in Pairs :
       /\ config.max_requests = 1
       /\ thr[t].pc = "in" /\ thr[t].op = "is_rate_limited" /\ thr[t].pair = p
       /\ thr[t].ret
       /\ admitted[p] = <<clock>>
       /\ backoff_times[p].violations = 1
       /\ lock = t

\* C23: the history never holds more than 1000 samples; it holds the
\* samples collected, in the order collected, up to the newest, and from the
\* 1001st sample on the oldest ones are those missing.
C23_BoundedHistory ==
    /\ Len(metrics_history) <= 1000
    /\ Len(metrics_history) = Min(collector.samples, 1000)
    /\ \A i \in DOMAIN metrics_history :
          metrics_history[i].timestamp
             = collector.samples - Len(metrics_history) + i

\* 1002 samples collected: the history holds samples 3 to 1002.
C23_Witness ==
    /\ collector.samples = 1002
    /\ Len(metrics_history) = 1000
    /\ metrics_history[1].timestamp = 3
    /\ metrics_history[1000].timestamp = 1002

\* The cpu_percent of the 60 samples a prediction is made from, given the
\* history it is made on.
RecentCpu(history) ==
    [i \in 1..60 |-> history[Len(history) - 60 + i].cpu_percent]

\* ys rises by the same positive amount from each sample to the next, and
\* the line through it is above 100 at 60 steps past the last sample.
RisesPast100(ys) ==
    LET b == ys[2] - ys[1] IN
    /\ b > 0
    /\ \A i \in 1..(Len(ys) - 1) : ys[i + 1] - ys[i] = b
    /\ ys[1] + b * (Len(ys) + 60) > 100

\* C24: a sample collected while the history holds fewer than 60 samples
\* carries no prediction; one collected on 60 or more carries predictions
\* of cpu_percent and memory_percent between 0 and 100, and exactly 100 for
\* cpu_percent when the last 60 samples rise linearly towards a value above
\* 100.
C24_PredictionClamped ==
    [][collector'.samples = collector.samples + 1 =>
         LET p == metrics_history'[Len(metrics_history')].prediction_window IN
         IF Len(metrics_history) < 60
         THEN ~p.defined
         ELSE /\ p.defined
              /\ 0 <= p.cpu_percent /\ p.cpu_percent <= 100 * PredictionScale
              /\ 0 <= p.memory_percent /\ p.memory_percent <= 100 * PredictionScale
              /\ RisesPast100(RecentCpu(metrics_history))
                    => p.cpu_percent = 100 * PredictionScale]_vars

\* The 61st sample of the rising series: the 60th carries no prediction,
\* the 61st one of exactly 100 for cpu_percent, made from the samples 1 to
\* 60, and of 0 for the falling memory_percent.
C24_Witness ==
    /\ series = "rising"
    /\ Len(metrics_history) = 61
    /\ metrics_history[60].cpu_percent = 60
    /\ ~metrics_history[60].prediction_window.defined
    /\ metrics_history[61].prediction_window =
          [defined |-> TRUE, cpu_percent |-> 100 * PredictionScale,
           memory_percent |-> 0]

\* C25 as stated: the endpoint's status is critical and the recovery hooks
\* are scheduled whenever the current sample has cpu_percent > 90,
\* memory_percent > 90 or a disk path above 95.
C25_CriticalWhenAnyExceeds ==
    (health # NoResponse /\ metrics_history # <<>>) =>
       LET m == metrics_history[Len(metrics_history)] IN
       (\/ m.cpu_percent > 90
        \/ m.memory_percent > 90
        \/ \E i \in DOMAIN m.disk_usage : m.disk_usage[i] > 95)
          => (health.status = "critical" /\ health.scheduled)

\* A run() the scheduler's run_agent of unit u awaits is in progress.
RunInProgress(u) == task[<<"sched", u>>].pc = "running"

\* C31: a tick has no deadline.  While a run() started by the scheduler has
\* not returned, the scheduler stays in the gather of that tick, however
\* much time passes: the tick does not complete, no later tick starts, and
\* the scheduler creates no further run_agent for any unit.
C31_HungRunStallsTick ==
    /\ [](\A u \in Units : RunInProgress(u) => sch.pc = "gather")
    /\ [][(\E u \in Units : RunInProgress(u) /\ RunInProgress(u)')
             => /\ sch' = sch
                /\ \A v \in Units :
                      task'[<<"sched", v>>].pc = "new" => task[<<"sched", v>>].pc = "new"]_vars

\* A run() has lasted longer than the scheduler's interval while another
\* unit of the same tick has long returned: the scheduler is still in the
\* gather.
C31_Witness ==
    \E u, v \in Units :
       /\ RunInProgress(u)
       /\ task[<<"sched", u>>].start >= ExecCap
       /\ tickRun[v] = "ok"
       /\ task[<<"sched", v>>].pc = "none"
       /\ sch.pc = "gather"

\* A run() of unit u is in flight, whoever called run_agent.
RunInFlight(u) == \E o \in Origins : task[<<o, u>>].pc = "running"

\* C32: a unit's state is Running exactly while a run() of it is in flight.
C32_RunningIffRunInFlight ==
    \A u \in units : state[u] = "running" <=> RunInFlight(u)

\* The recoveries of unit u in progress: every run_agent and every health
\* monitor that is inside _handle_agent_failure for it.
RecoveriesInProgress(u) ==
    Cardinality({t \in TaskIds : task[t].pc = "recovering" /\ task[t].target = u})
       + Cardinality({n \in Names : mon[n].pc = "recovering" /\ mon[n].target = u})

\* C33: at most one recovery is in progress per unit at any time.
C33_OneRecoveryPerUnit ==
    \A u \in Units : RecoveriesInProgress(u) <= 1

\* C34: no registered unit is ever Stopped.  restart succeeds for every
\* registered unit, so every recovery ends at restart: failover and
\* graceful_shutdown are never invoked.
C34_NeverStopped ==
    /\ [](\A u \in Registered : state[u] # "stopped")
    /\ [](result["failover"] = "-" /\ result["graceful_shutdown"] = "-")
    /\ [][ev'.rec \in {"none", "done"}
             /\ (ev'.rec = "done" => ev'.tried = <<"restart">>)]_vars

\* A recovery has just ended for a registered unit: restart returned True
\* and the unit is Idle with a breaker as constructed.
C34_Witness ==
    /\ ev.type = "restarted"
    /\ ev.target \in Registered
    /\ result["restart"] = "True"
    /\ state[ev.target] = "idle"
    /\ cb[ev.target] = CircuitBreaker

\* C35: restart replaces the breaker and leaves the health metrics as they
\* are; no step lowers a unit's error_count; a unit whose error_count has
\* reached 5 fails every health check, and every iteration of its health
\* monitor enters a recovery for it.
C35_ErrorCountIsForever ==
    /\ [][ev'.type = "restarted" /\ ev' # ev
             => (hm' = hm /\ cb'[ev'.target] = CircuitBreaker)]_vars
    /\ [][\A u \in Units : hm'[u].error_count >= hm[u].error_count]_vars
    /\ [](\A u \in units :
            hm[u].error_count >= 5 => ~health_check(state[u], hm[u]))
    /\ [][\A n \in Names :
            (MonitorIteration(n) /\ hm[agents[n]].error_count >= 5)
               => (mon'[n].pc = "recovering" /\ mon'[n].target = agents[n])]_vars

\* A unit with five errors that has been restarted, has run successfully
\* since (success rate 0.8 or more, breaker closed) and is in a recovery
\* entered by its monitor once more.
C35_Witness ==
    \E n \in Names :
       /\ mon[n].pc = "recovering"
       /\ result["restart"] = "True"
       /\ hm[mon[n].target].error_count = 5
       /\ hm[mon[n].target].success_rate * 10 >= 8 * FixedPoint
       /\ tickRun[mon[n].target] = "ok"

\* C36: get_remaining_quota consumes no quota.  In every state and for
\* every pair, is_rate_limited called now or at any later time returns the
\* same and leaves the same window and backoff entry whether or not
\* get_remaining_quota was called first; and a get_remaining_quota call
\* only prunes the pair's window: it appends nothing, and leaves the
\* backoff entries and every other window as they were.
C36_QuotaQueryConsumesNothing ==
    /\ [](\A p \in Pairs : \A t \in clock..MaxTime :
            LET q == get_remaining_quota(windows[p], backoff_times[p], clock, config)
            IN is_rate_limited(q.window, backoff_times[p], t, config)
                  = is_rate_limited(windows[p], backoff_times[p], t, config))
    /\ [][rl'.op = "get_remaining_quota"
             => /\ backoff_times' = backoff_times
                /\ admitted' = admitted
                /\ \A p \in Pairs :
                      windows'[p] = IF p = rl'.pair
                                    THEN prune(windows[p], clock, config)
                                    ELSE windows[p]]_vars

\* get_remaining_quota has just reported one request left of two: a query
\* that took a slot would have the next request denied.
C36_Witness ==
    /\ rl.op = "get_remaining_quota"
    /\ rl.remaining = 1
    /\ config.max_requests = 2
    /\ Len(windows[rl.pair]) = 1
    /\ clock >= 1

\* Pair p has been in a backoff, the backoff has ended, and no request of
\* p was admitted since.
BackoffJustEnded(p) ==
    /\ backoff_times[p].violations > 0
    /\ clock >= backoff_times[p].backoff_until
    /\ \A i \in DOMAIN windows[p] : windows[p][i] < backoff_times[p].backoff_until

\* C37: once a pair's backoff has ended, its pruned window holds nothing
\* from before the end of the backoff; so the first is_rate_limited call
\* after the backoff finds the full quota and is admitted, its timestamp
\* the only one in the window.
C37_FullQuotaAfterBackoff ==
    /\ [](\A p \in Pairs :
            (backoff_times[p].violations > 0 /\ clock >= backoff_times[p].backoff_until)
               => LET w == prune(windows[p], clock, config) IN
                  \A i \in DOMAIN w : w[i] >= backoff_times[p].backoff_until)
    /\ [](\A p \in Pairs :
            BackoffJustEnded(p)
               => get_remaining_quota(windows[p], backoff_times[p], clock, config).remaining
                     = config.max_requests)
    /\ [][\A p \in Pairs :
            (rl'.op = "is_rate_limited" /\ rl'.pair = p /\ BackoffJustEnded(p))
               => (~rl'.ret /\ windows'[p] = <<clock>>)]_vars

\* The first request after a backoff, made at the very second the backoff
\* ended, the backoff having lasted exactly window_seconds: admitted.
C37_Witness ==
    \E p \in Pairs :
       /\ rl = Call("is_rate_limited", p, FALSE, 0, 0)
       /\ config.backoff_multiplier = 1
       /\ backoff_times[p].violations = 1
       /\ clock = backoff_times[p].backoff_until
       /\ windows[p] = <<clock>>

\* C38: get_metrics_history(n) returns the most recent min(n, len(history))
\* samples in collection order for every n >= 0, never more than n, and
\* leaves the history as it is.
C38_LastNSamples ==
    /\ [](queried.minutes # None
            => LET n == queried.minutes
                   len == Len(metrics_history)
               IN /\ queried.samples = SubSeq(metrics_history, len - Min(n, len) + 1, len)
                  /\ Len(queried.samples) <= n)
    /\ [][queried'.minutes # None => metrics_history' = metrics_history]_vars

\* This step is an iteration of the collector's loop.
CollectorIteration == health' = NoResponse /\ queried' = NoQuery

\* C39: every sample the collector obtains is appended to the history in
\* the same iteration, also when the anomaly detection fails on it.
C39_ObtainedIsAppended ==
    [][(CollectorIteration /\ collector'.last \in {"ok", "anomaly_error"})
          => /\ collector'.samples = collector.samples + 1
             /\ metrics_history' # <<>>
             /\ Last(metrics_history').timestamp = collector'.samples]_vars

====
